---- MODULE Spec2Model ----
(***************************************************************************)
(* A model of the ledger core: the date-ordered record store (Recordlist), *)
(* the fixed-point monetary type (Cents) and the calendar interval         *)
(* iterator (Interval::iter).                                              *)
(*                                                                         *)
(* Conventions.  A Date is the integer yyyymmdd, whose integer order is    *)
(* the calendar order.  Option<T> is a sequence of length at most one:     *)
(* None is <<>> and Some(x) is <<x>>.  Indices are zero-based as in the    *)
(* source; l[i + 1] reads element i of a Vec.  A string is the sequence of *)
(* its ASCII codes.                                                        *)
(***************************************************************************)
EXTENDS Integers, Sequences, FiniteSets, TLC

VARIABLES
    list,     \* Recordlist.0 : Vec<Record>
    byDate,   \* history: for each date, the records given for it, in the order given
    call,     \* the last Recordlist operation and its arguments
    ret,      \* what that operation returned
    old,      \* Recordlist.0 before that operation
    build,    \* the build profile: overflow panics in "debug" and wraps in "release"
    cents,    \* a Cents value
    text,     \* a string handed to Cents::from_str
    shown,    \* the result of cents.to_string()
    lens,     \* the results of cents.charlen() and cents.charlen_for_alignment()
    parsed,   \* the result of text.parse::<Cents>()
    reparsed, \* the result of cents.to_string().parse::<Cents>()
    it_bounds, \* Iter.bounds: the interval being subdivided
    it_part,   \* Iter.part
    it_next,   \* Iter.next : Option<Interval>
    it_out,    \* the subintervals Iter::next has yielded so far
    it_done,   \* Iter::next has returned None
    it_prev,   \* Some(what an earlier invocation of iter on the same interval yielded)
    ie_x,      \* three intervals that are compared
    ie_y,
    ie_z,
    ie_res,    \* Some(the results of comparing and hashing them)
    dt_build,   \* the build profile of the Date experiments
    dt_self,    \* a Date: the receiver of shift, and today() for from_str
    dt_part,    \* the Datepart handed to shift
    dt_offset,  \* the offset handed to shift
    dt_shifted, \* the result of dt_self.shift(dt_part, dt_offset)
    dt_text,    \* a string handed to Date::from_str
    dt_parsed,  \* the result of dt_text.parse::<Date>()
    lm_limits,  \* Limits.0 : BTreeMap<u16, Cents>, as its entries in key order
    lm_log,     \* history: the set and remove calls made on lm_limits, in order
    lm_records, \* the Recordlist handed to Limitkind::remaining
    lm_ret,     \* the last Limits or Limitkind operation, its arguments and result
    ag_self,    \* an Aggregate<K, V>: its fields m and sum
    ag_log,     \* history: the (key, value) pairs added to ag_self, in order
    ag_other,   \* Some(an Aggregate collected from the same pairs in another order)
    ag_ret,     \* the last query made on ag_self and its result
    ou_output,   \* an Output: its variant and what the variant holds
    ou_colorize, \* whether the colored crate emits escape codes (its environment)
    ou_text,     \* Some(ou_output.to_string())
    ca_text,     \* a string handed to Category::from_str
    ca_parsed,   \* the result of ca_text.parse::<Category>()
    ca_ret,      \* Some(<<n, category.level(n)>>) for the parsed category
    rp_config,   \* the Config of a report: its kind and its fields
    rp_build,    \* the build profile the report is built under
    rp_built,    \* Some(what to_tree / to_limitprinter computed), or Some(Panicked)
    rp_text,     \* Some(the report's to_string())
    fs_config,   \* the file .ledger.json: Some(the Config it holds), None without the file
    fs_rl,       \* the file ledger.jsonl: the Recordlist it holds, empty without the file
    fs_limits,   \* the file limits.json: the Limits it holds, empty without the file
    cl_cmd,      \* the last command line run, parsed
    cl_res,      \* what Root::run returned for it
    cl_before    \* history: Some(the three files as they were before it ran)

rlVars == <<list, byDate, call, ret, old>>

centsVars == <<build, cents, text, shown, lens, parsed, reparsed>>

iterVars == <<it_bounds, it_part, it_next, it_out, it_done, it_prev>>

eqVars == <<ie_x, ie_y, ie_z, ie_res>>

dateVars == <<dt_build, dt_self, dt_part, dt_offset, dt_shifted, dt_text, dt_parsed>>

limitVars == <<lm_limits, lm_log, lm_records, lm_ret>>

aggVars == <<ag_self, ag_log, ag_other, ag_ret>>

outVars == <<ou_output, ou_colorize, ou_text>>

catVars == <<ca_text, ca_parsed, ca_ret>>

reportVars == <<rp_config, rp_build, rp_built, rp_text>>

cliVars == <<fs_config, fs_rl, fs_limits, cl_cmd, cl_res, cl_before>>

vars == <<rlVars, centsVars, iterVars, eqVars, dateVars, limitVars, aggVars, outVars,
          catVars, reportVars, cliVars>>

\* what each component leaves alone
nonRlVars == <<centsVars, iterVars, eqVars, dateVars, limitVars, aggVars, outVars, catVars,
    reportVars, cliVars>>
nonCentsVars == <<rlVars, iterVars, eqVars, dateVars, limitVars, aggVars, outVars, catVars,
    reportVars, cliVars>>
nonIterVars == <<rlVars, centsVars, eqVars, dateVars, limitVars, aggVars, outVars, catVars,
    reportVars, cliVars>>
nonEqVars == <<rlVars, centsVars, iterVars, dateVars, limitVars, aggVars, outVars, catVars,
    reportVars, cliVars>>
nonDateVars == <<rlVars, centsVars, iterVars, eqVars, limitVars, aggVars, outVars, catVars,
    reportVars, cliVars>>
nonLimitVars == <<rlVars, centsVars, iterVars, eqVars, dateVars, aggVars, outVars, catVars,
    reportVars, cliVars>>
nonAggVars == <<rlVars, centsVars, iterVars, eqVars, dateVars, limitVars, outVars, catVars,
    reportVars, cliVars>>
nonOutVars == <<rlVars, centsVars, iterVars, eqVars, dateVars, limitVars, aggVars, catVars,
    reportVars, cliVars>>
nonCatVars == <<rlVars, centsVars, iterVars, eqVars, dateVars, limitVars, aggVars, outVars,
    reportVars, cliVars>>
nonReportVars == <<rlVars, centsVars, iterVars, eqVars, dateVars, limitVars, aggVars, outVars,
    catVars, cliVars>>
nonCliVars == <<rlVars, centsVars, iterVars, eqVars, dateVars, limitVars, aggVars, outVars,
    catVars, reportVars>>

None == <<>>
Some(x) == <<x>>

----------------------------------------------------------------------------
(* Bounds of the model *)

\* longest Recordlist explored
MaxLen == 4
\* longest unordered batch handed to from_iter
MaxBatch == 3
\* largest amount, in cents either side of zero, of the exhaustive range
MaxCents == 130
\* longest string handed to Cents::from_str
MaxStr == 4
\* the intervals subdivided span at most MaxYears calendar years
MaxYears == 2
\* and at most MaxDays days when they are subdivided into days
MaxDays == 35
\* every offset up to MaxShift either side of zero is handed to Date::shift
MaxShift == 13
\* every offset up to MaxOffset either side of zero is written in a relative date
MaxOffset == 13
\* most set and remove calls made on a Limits
MaxCalls == 3
\* most records handed to Limitkind::remaining
MaxRecords == 3
\* most pairs added to an Aggregate
MaxAdds == 3
\* most records in the Recordlist of a Barchart
MaxBars == 2
\* longest string handed to Category::from_str
MaxCat == 5
\* the levels 0..MaxLevel of a Category are taken
MaxLevel == 4
\* most records in the Recordlist of a sum tree
MaxSum == 3
MaxView == 2
MaxRows == 2
MaxLedger == 2

----------------------------------------------------------------------------
(* Dates *)

\* 0000-01-01
Date_MIN == 101
\* 9999-12-31
Date_MAX == 99991231

\* width of usize in the model: TLC integers are 32-bit, so the overflow of
\* i.checked_add(iid) is modelled at the largest integer TLC can hold
USIZE_MAX == 2147483647

\* the dates records are logged on
RecordDates == {20150330, 20150401, 20160229}

\* the dates interval bounds are drawn from: record dates, a date between
\* two of them, and dates before and after all of them
QueryDates == {Date_MIN, 20150330, 20150331, 20150401, Date_MAX}

----------------------------------------------------------------------------
(* Record *)

Categories == {"food"}
Amounts == {-500, 1500}
Notes == {""}

Record == [date : RecordDates, category : Categories, amount : Amounts, note : Notes]

date(r) == r.date

----------------------------------------------------------------------------
(* Interval (the part Recordlist needs) *)

Interval == [start : QueryDates, end : QueryDates]

is_empty(interval) == interval.start > interval.end

----------------------------------------------------------------------------
(* Recordlist *)

\* slice::partition_point over the sequence of the predicate's values: a
\* binary search for the first element the predicate rejects
RECURSIVE partition_point_in(_, _, _)
partition_point_in(flags, lo, hi) ==
    IF lo >= hi THEN lo
    ELSE LET mid == lo + (hi - lo) \div 2
         IN  IF flags[mid + 1]
             THEN partition_point_in(flags, mid + 1, hi)
             ELSE partition_point_in(flags, lo, mid)

partition_point(flags) == partition_point_in(flags, 0, Len(flags))

\* Vec::insert(i, x)
vec_insert(v, i, x) == SubSeq(v, 1, i) \o <<x>> \o SubSeq(v, i + 1, Len(v))

\* Vec::remove(i), the vector that is left
vec_remove(v, i) == SubSeq(v, 1, i) \o SubSeq(v, i + 2, Len(v))

\* slice::sort_by_key(Record::date): a stable sort, which for the short
\* slices of the model is the insertion sort the standard library runs
RECURSIVE sort_by_key(_)
sort_by_key(v) ==
    IF Len(v) <= 1 THEN v
    ELSE LET sorted == sort_by_key(SubSeq(v, 1, Len(v) - 1))
             x      == v[Len(v)]
             after  == {k \in 0..Len(sorted) :
                           \A m \in (k + 1)..Len(sorted) : date(sorted[m]) > date(x)}
             i      == CHOOSE k \in after : \A k2 \in after : k <= k2
         IN  vec_insert(sorted, i, x)

from_vec_unsorted(inner) == inner

from_vec(inner) == sort_by_key(inner)

\* the bounds i, j of the run slice_spanning_interval returns
slice_bounds(l, interval) ==
    LET i    == partition_point([k \in 1..Len(l) |-> date(l[k]) < interval.start])
        rest == SubSeq(l, i + 1, Len(l))
        j    == i + partition_point([k \in 1..Len(rest) |-> date(rest[k]) <= interval.end])
    IN  <<i, j>>

slice_spanning_interval_open_end(l, interval) ==
    IF is_empty(interval) THEN <<>>
    ELSE LET i    == partition_point([k \in 1..Len(l) |-> date(l[k]) < interval.start])
             rest == SubSeq(l, i + 1, Len(l))
             j    == i + partition_point([k \in 1..Len(rest) |-> date(rest[k]) < interval.end])
         IN  SubSeq(l, i + 1, j)

slice_spanning_interval(l, interval) ==
    IF is_empty(interval) THEN <<>>
    ELSE LET b == slice_bounds(l, interval)
         IN  SubSeq(l, b[1] + 1, b[2])

insert_before_same_date(l, r) ==
    vec_insert(l, partition_point([k \in 1..Len(l) |-> date(l[k]) < date(r)]), r)

insert(l, r) ==
    vec_insert(l, partition_point([k \in 1..Len(l) |-> date(l[k]) <= date(r)]), r)

\* usize::checked_add
checked_add(a, b) == IF b > USIZE_MAX - a THEN None ELSE Some(a + b)

\* usize::wrapping_add
wrapping_add(a, b) == IF b > USIZE_MAX - a THEN a - (USIZE_MAX - b) - 1 ELSE a + b

index_of_wrapping(l, dt, iid) ==
    LET i    == partition_point([x \in 1..Len(l) |-> date(l[x]) < dt])
        rest == SubSeq(l, i + 1, Len(l))
        j    == i + partition_point([x \in 1..Len(rest) |-> date(rest[x]) <= dt])
        k    == wrapping_add(i, iid)
    IN  IF k < j THEN Some(k) ELSE None

index_of(l, dt, iid) ==
    LET i    == partition_point([x \in 1..Len(l) |-> date(l[x]) < dt])
        rest == SubSeq(l, i + 1, Len(l))
        j    == i + partition_point([x \in 1..Len(rest) |-> date(rest[x]) <= dt])
        k    == checked_add(i, iid)
    IN  IF k = None THEN None
        ELSE IF k[1] < j THEN Some(k[1]) ELSE None

\* get taking iid as an index into the whole list
get_from_start(l, dt, iid) ==
    IF iid < Len(l) /\ date(l[iid + 1]) = dt THEN Some(l[iid + 1]) ELSE None

get(l, dt, iid) ==
    LET i == index_of(l, dt, iid)
    IN  IF i = None THEN None ELSE Some(l[i[1] + 1])

\* remove: <<the list afterwards, the value returned>>
remove_first_of_date(l, dt, iid) ==
    LET i == index_of(l, dt, iid)
        f == index_of(l, dt, 0)
    IN  IF i = None THEN <<l, None>>
        ELSE <<vec_remove(l, f[1]), Some(l[f[1] + 1])>>

remove(l, dt, iid) ==
    LET i == index_of(l, dt, iid)
    IN  IF i = None THEN <<l, None>>
        ELSE <<vec_remove(l, i[1]), Some(l[i[1] + 1])>>

\* iter_with_iid: the pairs the iterator yields, from element i on, the
\* closure's counter being iid
RECURSIVE iter_with_iid_from(_, _, _)
iter_with_iid_from(l, i, iid) ==
    IF i >= Len(l) THEN <<>>
    ELSE LET r  == l[i + 1]
             id == IF i > 0 /\ date(r) > date(l[i]) THEN 0 ELSE iid
         IN  <<<<id, r>>>> \o iter_with_iid_from(l, i + 1, id + 1)

RECURSIVE iter_with_iid_no_reset(_)
iter_with_iid_no_reset(l) ==
    IF l = <<>> THEN <<>>
    ELSE iter_with_iid_no_reset(SubSeq(l, 1, Len(l) - 1)) \o <<<<Len(l) - 1, l[Len(l)]>>>>

iter_with_iid(l) == iter_with_iid_from(l, 0, 0)

----------------------------------------------------------------------------
(* 64-bit integers *)

(* An i64 or u64 is held as a sign and a magnitude, the magnitude being the  *)
(* sequence of its decimal digits, least significant first, without leading *)
(* zeros (zero is the empty sequence): TLC's own integers are too narrow.   *)

RECURSIVE MagOf(_)
\* the magnitude of a natural number small enough for TLC
MagOf(n) == IF n = 0 THEN <<>> ELSE <<n % 10>> \o MagOf(n \div 10)

\* the i64 of an integer small enough for TLC
I64(n) == [neg |-> n < 0, mag |-> MagOf(IF n < 0 THEN -n ELSE n)]

Reverse(q) == [k \in 1..Len(q) |-> q[Len(q) + 1 - k]]

\* a < b on magnitudes
MagLess(a, b) ==
    \/ Len(a) < Len(b)
    \/ /\ Len(a) = Len(b)
       /\ \E k \in 1..Len(a) :
             /\ a[k] < b[k]
             /\ \A m \in (k + 1)..Len(a) : a[m] = b[m]

\* x < y on i64
I64Less(x, y) ==
    IF x.neg /\ ~y.neg THEN TRUE
    ELSE IF ~x.neg /\ y.neg THEN FALSE
    ELSE IF x.neg THEN MagLess(y.mag, x.mag)
    ELSE MagLess(x.mag, y.mag)

\* 10^k as a magnitude
Pow10(k) == [m \in 1..(k + 1) |-> IF m = k + 1 THEN 1 ELSE 0]

\* 10^k - 1 as a magnitude
Nines(k) == [m \in 1..k |-> 9]

\* i64::MAX = 9223372036854775807
I64_MAX == [neg |-> FALSE,
            mag |-> Reverse(<<9,2,2,3,3,7,2,0,3,6,8,5,4,7,7,5,8,0,7>>)]

\* i64::MIN = -9223372036854775808
I64_MIN == [neg |-> TRUE,
            mag |-> Reverse(<<9,2,2,3,3,7,2,0,3,6,8,5,4,7,7,5,8,0,8>>)]

\* x % 10 on i64: the remainder has the sign of x
rem10(x) == IF x.mag = <<>> THEN 0 ELSE IF x.neg THEN -x.mag[1] ELSE x.mag[1]

\* x / 10 on i64: the quotient is truncated towards zero
div10(x) ==
    LET m == Tail(x.mag)
    IN  [neg |-> x.neg /\ m # <<>>, mag |-> IF x.mag = <<>> THEN <<>> ELSE m]

\* the result of an operation that may overflow: <<"Panic">> in a debug build,
\* <<"Ok", value, wrapped>> otherwise, wrapped telling that arithmetic wrapped
Panicked == <<"Panic">>
Done(v, wrapped) == <<"Ok", v, wrapped>>

\* Result<T, E>
Ok(v) == <<"Ok", v>>
Err == <<"Err">>

----------------------------------------------------------------------------
(* util::count_digits *)

RECURSIVE count_digits_while(_, _, _)
count_digits_while(n, count, ceil) ==
    IF ~MagLess(n, ceil)
    THEN count_digits_while(n, count + 1, <<0>> \o ceil)
    ELSE count

\* n is the magnitude of a u64
count_digits(n) ==
    IF ~MagLess(n, Pow10(19)) THEN 20
    ELSE count_digits_while(n, 1, Pow10(1))

----------------------------------------------------------------------------
(* Cents *)

\* Cents::abs: i64::abs overflows on i64::MIN
abs(self, b) ==
    IF self = I64_MIN
    THEN IF b = "debug" THEN Panicked ELSE Done(self, TRUE)
    ELSE Done([neg |-> FALSE, mag |-> self.mag], FALSE)

\* i64::max(100)
max_100(x) == IF I64Less(x, I64(100)) THEN I64(100) ELSE x

charlen(self, b) ==
    LET a == abs(self, b)
    IN  IF a = Panicked THEN Panicked
        ELSE LET n    == max_100(a[2]).mag
                 len0 == count_digits(n)
                 len1 == len0 + (len0 - 3) \div 3
                 len2 == len1 + 1
             IN  Done(IF self.neg THEN len2 + 2 ELSE len2, a[3])

charlen_for_alignment(self, b) ==
    LET l == charlen(self, b)
    IN  IF l = Panicked THEN Panicked
        ELSE Done(l[2] + (IF ~I64Less(self, I64(0)) THEN 1 ELSE 0), l[3])

\* the state of Display::fmt: the cents left, the bytes pushed, and whether
\* the u8 addition has panicked or wrapped
\* pop_digit!(): bytes.push(b'0' + (cents % 10) as u8); cents /= 10
pop_digit(st, b) ==
    LET byte == 48 + (rem10(st.cents) % 256)
    IN  IF st.panic THEN st
        ELSE IF byte > 255 /\ b = "debug" THEN [st EXCEPT !.panic = TRUE]
        ELSE [st EXCEPT !.bytes = Append(@, byte % 256),
                        !.cents = div10(@),
                        !.wrapped = @ \/ byte > 255]

push(st, byte) == [st EXCEPT !.bytes = Append(@, byte)]

RECURSIVE fmt_while(_, _, _)
fmt_while(st, i, b) ==
    IF st.panic \/ st.cents.neg \/ st.cents.mag = <<>> THEN st
    ELSE fmt_while(pop_digit(IF i % 3 = 0 THEN push(st, 44) ELSE st, b), i + 1, b)

\* impl Display for Cents
to_string(self, b) ==
    LET a == abs(self, b)
    IN  IF a = Panicked THEN Panicked
        ELSE LET st0 == [cents |-> a[2], bytes |-> <<>>, panic |-> FALSE, wrapped |-> a[3]]
                 st2 == pop_digit(pop_digit(st0, b), b)
                 st3 == pop_digit(push(st2, 46), b)
                 st4 == fmt_while(st3, 1, b)
                 rev == Reverse(st4.bytes)
             IN  IF st4.panic THEN Panicked
                 ELSE Done(IF self.neg THEN <<40>> \o rev \o <<41>> ELSE rev,
                           st4.wrapped)

IsDigitByte(c) == c \in 48..57

RECURSIVE StripZeros(_)
\* a magnitude without its leading (most significant) zeros
StripZeros(m) ==
    IF m # <<>> /\ m[Len(m)] = 0 THEN StripZeros(SubSeq(m, 1, Len(m) - 1)) ELSE m

\* the magnitude a string of digit bytes denotes
MagOfDigits(ds) == StripZeros(Reverse([k \in 1..Len(ds) |-> ds[k] - 48]))

\* str::parse::<i64>()
parse_i64(s) ==
    IF s = <<>> THEN Err
    ELSE LET signed == s[1] \in {43, 45}
             ds     == IF signed THEN Tail(s) ELSE s
             m      == MagOfDigits(ds)
         IN  IF ds = <<>> \/ \E k \in 1..Len(ds) : ~IsDigitByte(ds[k]) THEN Err
             ELSE IF s[1] = 45
                  THEN IF MagLess(I64_MIN.mag, m) THEN Err
                       ELSE Ok([neg |-> m # <<>>, mag |-> m])
                  ELSE IF MagLess(I64_MAX.mag, m) THEN Err
                       ELSE Ok([neg |-> FALSE, mag |-> m])

\* slice::swap(i, j), zero-based
swap(v, i, j) ==
    [k \in 1..Len(v) |-> IF k = i + 1 THEN v[j + 1] ELSE IF k = j + 1 THEN v[i + 1] ELSE v[k]]

\* the strings from_str hands to parse unchanged: "", "+", "-", ".", "+.", "-."
SignOrPointOnly == {<<>>, <<43>>, <<45>>, <<46>>, <<43, 46>>, <<45, 46>>}

\* the zero-based position of the first '.', or None
position_of_point(chars) ==
    IF \E k \in 1..Len(chars) : chars[k] = 46
    THEN Some((CHOOSE k \in 1..Len(chars) :
                  chars[k] = 46 /\ \A m \in 1..(k - 1) : chars[m] # 46) - 1)
    ELSE None

from_str_keeping_commas(str) ==
    LET s == str
    IN  IF s \in SignOrPointOnly THEN parse_i64(s)
        ELSE LET chars == s \o <<48, 48>>
                 i     == position_of_point(chars)
             IN  IF i = None THEN parse_i64(chars)
                 ELSE parse_i64(SubSeq(swap(swap(chars, i[1], i[1] + 1),
                                            i[1] + 1, i[1] + 2),
                                       1, i[1] + 2))

\* impl FromStr for Cents
from_str(str) ==
    LET s == SelectSeq(str, LAMBDA c : c # 44)
    IN  IF s \in SignOrPointOnly THEN parse_i64(s)
        ELSE LET chars == s \o <<48, 48>>
                 i     == position_of_point(chars)
             IN  IF i = None THEN parse_i64(chars)
                 ELSE parse_i64(SubSeq(swap(swap(chars, i[1], i[1] + 1),
                                            i[1] + 1, i[1] + 2),
                                       1, i[1] + 2))

----------------------------------------------------------------------------
(* Date and Datepart *)

Datepart == {"Year", "Month", "Day"}

year(dt) == dt \div 10000
month(dt) == (dt \div 100) % 100
day(dt) == dt % 100

\* the date of a year, month and day, as a yyyymmdd integer
ymd(y, m, d) == y * 10000 + m * 100 + d

\* i32::MAX
I32_MAX == 2147483647

\* the year of the tests' today(), 2015-03-30: the year before a leap year
FirstYear == 2015

\* the Gregorian leap rule, as chrono applies it
is_leap_year(y) == y % 4 = 0 /\ (y % 100 # 0 \/ y % 400 = 0)

\* chrono's days of a month
days_in_month(y, m) ==
    IF m = 2 THEN (IF is_leap_year(y) THEN 29 ELSE 28)
    ELSE IF m \in {4, 6, 9, 11} THEN 30 ELSE 31

\* Date::from_ymd: chrono::NaiveDate::from_ymd_opt, then Date::new's check
\* against Date::MIN and Date::MAX; y is the year as an i32
from_ymd(y, m, d) ==
    IF /\ m \in 1..12
       /\ d >= 1
       /\ d <= days_in_month(y, m)
       /\ y >= year(Date_MIN)
       /\ y <= year(Date_MAX)
    THEN Some(ymd(y, m, d))
    ELSE None

first_of(self, part) ==
    IF part = "Day" THEN self
    ELSE IF part = "Year" THEN from_ymd(year(self), 1, 1)[1]
    ELSE from_ymd(year(self), month(self), 1)[1]

\* the table of last_of: [0, 31, 28, 31, 30, 31, 30, 31, 31, 30, 31, 30, 31]
LastDayTable == <<31, 28, 31, 30, 31, 30, 31, 31, 30, 31, 30, 31>>

last_of(self, part) ==
    IF part = "Day" THEN self
    ELSE IF part = "Year" THEN from_ymd(year(self), 12, 31)[1]
    ELSE from_ymd(year(self), month(self),
                  IF /\ month(self) = 2
                     /\ year(self) % 4 = 0
                     /\ (year(self) % 100 # 0 \/ year(self) % 400 = 0)
                  THEN 29
                  ELSE LastDayTable[month(self)])[1]

\* the number of days from 1970-01-01 to a date, and the date of such a
\* number: the day arithmetic of chrono::NaiveDate::checked_add_signed
days_of(dt) ==
    LET y   == IF month(dt) <= 2 THEN year(dt) - 1 ELSE year(dt)
        era == y \div 400
        yoe == y - era * 400
        mp  == IF month(dt) > 2 THEN month(dt) - 3 ELSE month(dt) + 9
        doy == (153 * mp + 2) \div 5 + day(dt) - 1
        doe == yoe * 365 + yoe \div 4 - yoe \div 100 + doy
    IN  era * 146097 + doe - 719468

date_of_days(n) ==
    LET z   == n + 719468
        era == z \div 146097
        doe == z - era * 146097
        yoe == (doe - doe \div 1460 + doe \div 36524 - doe \div 146096) \div 365
        doy == doe - (365 * yoe + yoe \div 4 - yoe \div 100)
        mp  == (5 * doy + 2) \div 153
        d   == doy - (153 * mp + 2) \div 5 + 1
        m   == IF mp < 10 THEN mp + 3 ELSE mp - 9
        y   == yoe + era * 400 + (IF m <= 2 THEN 1 ELSE 0)
    IN  <<y, m, d>>

\* a / b and a % b as Rust computes them for b > 0: the quotient truncated
\* towards zero, the remainder with the sign of a
rust_div(a, b) == IF a >= 0 \/ a % b = 0 THEN a \div b ELSE (a \div b) + 1
rust_rem(a, b) == a - b * rust_div(a, b)

\* shift by days: checked_add_signed(Duration::days(offset)).and_then(Date::new).
\* An offset longer than the whole range of Date leaves the range whatever
\* the date is.
shift_days(self, offset) ==
    LET span == days_of(Date_MAX) - days_of(Date_MIN)
    IN  IF offset > span \/ offset < 0 - span THEN None
        ELSE LET t == date_of_days(days_of(self) + offset)
             IN  from_ymd(t[1], t[2], t[3])

\* i32::MIN
I32_MIN == 0 - I32_MAX - 1

\* m - 12 in i32 as a release build computes it: below i32::MIN it wraps
\* around by 2^32
wrapping_sub_12(m) ==
    IF m < I32_MIN + 12 THEN (m + I32_MAX) + (I32_MAX - 10) ELSE m - 12

\* whether shift leaves the range of i32: the checked_add has succeeded, m is
\* below 1 and m - 12 is below i32::MIN
shift_overflows(self, part, offset) ==
    /\ part = "Month"
    /\ offset <= I32_MAX - month(self)
    /\ month(self) + offset < I32_MIN + 12

\* the year and month shift aims at, or None
shift_target(self, part, offset) ==
    IF part = "Year"
    THEN IF offset > I32_MAX - year(self) THEN None
         ELSE IF year(self) + offset < 0 THEN None
         ELSE Some(<<year(self) + offset, month(self)>>)
    ELSE IF offset > I32_MAX - month(self) THEN None
         ELSE LET m == month(self) + offset
              IN  IF m > 12
                  THEN Some(<<year(self) + rust_div(m - 1, 12), rust_rem(m - 1, 12) + 1>>)
                  ELSE IF m < 1
                  THEN Some(<<year(self) + rust_div(wrapping_sub_12(m), 12),
                              rust_rem(rust_rem(m, 12) + 11, 12) + 1>>)
                  ELSE Some(<<year(self), m>>)

\* shift keeping the day whatever the target month
shift_without_clamp(self, part, offset) ==
    IF part = "Day" THEN shift_days(self, offset)
    ELSE LET t == shift_target(self, part, offset)
         IN  IF t = None THEN None ELSE from_ymd(t[1][1], t[1][2], day(self))

\* Date::shift, as a release build computes it
shift(self, part, offset) ==
    IF part = "Day" THEN shift_days(self, offset)
    ELSE LET t == shift_target(self, part, offset)
         IN  IF t = None THEN None
             ELSE LET first == from_ymd(t[1][1], t[1][2], 1)
                  IN  IF first = None THEN None
                      ELSE LET dt == last_of(first[1], "Month")
                               d  == IF day(dt) < day(self) THEN day(dt) ELSE day(self)
                           IN  from_ymd(year(dt), month(dt), d)

\* Date::shift in a given build: m - 12 overflowing panics in a debug build
\* and wraps in a release build
shift_in(self, part, offset, b) ==
    IF shift_overflows(self, part, offset) /\ b = "debug" THEN Panicked
    ELSE Done(shift(self, part, offset), shift_overflows(self, part, offset))

----------------------------------------------------------------------------
(* Date::from_str *)

\* ParseError
DateErr(variant) == <<"Err", variant>>

\* str::parse::<i32>() on the digits from position i on, acc being the value
\* of the digits read: each digit is added (subtracted when negative) with
\* overflow checked
RECURSIVE parse_i32_digits(_, _, _, _)
parse_i32_digits(bytes, i, acc, negative) ==
    IF i > Len(bytes) THEN Some(acc)
    ELSE IF ~IsDigitByte(bytes[i]) THEN None
    ELSE LET d == bytes[i] - 48
         IN  IF negative
             THEN IF (0 - acc) > (IF d = 0 THEN I32_MAX \div 10
                                  ELSE (I32_MAX - (d - 1)) \div 10)
                  THEN None
                  ELSE parse_i32_digits(bytes, i + 1, acc * 10 - d, negative)
             ELSE IF acc > (I32_MAX - d) \div 10
                  THEN None
                  ELSE parse_i32_digits(bytes, i + 1, acc * 10 + d, negative)

\* str::parse::<i32>(): an optional sign and at least one digit
parse_i32(bytes) ==
    IF bytes = <<>> THEN None
    ELSE IF bytes[1] \in {43, 45}
    THEN IF Len(bytes) = 1 THEN None
         ELSE parse_i32_digits(bytes, 2, 0, bytes[1] = 45)
    ELSE parse_i32_digits(bytes, 1, 0, FALSE)

\* std::str::from_utf8 on byte strings of ASCII and two-byte characters:
\* a continuation byte must follow a lead byte and nothing else
RECURSIVE from_utf8_ok(_, _)
from_utf8_ok(bytes, i) ==
    IF i > Len(bytes) THEN TRUE
    ELSE IF bytes[i] < 128 THEN from_utf8_ok(bytes, i + 1)
    ELSE IF /\ bytes[i] \in 194..223
            /\ i + 1 <= Len(bytes)
            /\ bytes[i + 1] \in 128..191
         THEN from_utf8_ok(bytes, i + 2)
    ELSE FALSE

\* the number of leading digits of bytes from position i on, at most max
RECURSIVE digits_from(_, _, _)
digits_from(bytes, i, max) ==
    IF max = 0 \/ i > Len(bytes) \/ ~IsDigitByte(bytes[i]) THEN 0
    ELSE 1 + digits_from(bytes, i + 1, max - 1)

\* the value of the n digits of bytes from position i on
RECURSIVE number_at(_, _, _)
number_at(bytes, i, n) ==
    IF n = 0 THEN 0
    ELSE 10 * number_at(bytes, i, n - 1) + (bytes[i + n - 1] - 48)

\* str::parse::<chrono::NaiveDate>() on a string that starts with a digit and
\* holds no whitespace: a year of one to four digits, '-', a month of one or
\* two digits, '-', a day of one or two digits, and nothing more; the three
\* numbers must be a date of the calendar.  Some(<<y, m, d>>) or None.
parse_naive_date(bytes) ==
    LET ny == digits_from(bytes, 1, 4)
        im == ny + 2
        nm == digits_from(bytes, im, 2)
        id == im + nm + 1
        nd == digits_from(bytes, id, 2)
    IN  IF /\ ny >= 1
           /\ Len(bytes) >= ny + 1 /\ bytes[ny + 1] = 45
           /\ nm >= 1
           /\ Len(bytes) >= im + nm /\ bytes[im + nm] = 45
           /\ nd >= 1
           /\ Len(bytes) = id + nd - 1
        THEN LET y == number_at(bytes, 1, ny)
                 m == number_at(bytes, im, nm)
                 d == number_at(bytes, id, nd)
             IN  IF m \in 1..12 /\ d >= 1 /\ d <= days_in_month(y, m)
                 THEN Some(<<y, m, d>>)
                 ELSE None
        ELSE None

\* Option::map over the outcome of shift_in
map_shifted(r, F(_)) ==
    IF r = Panicked \/ r[2] = None THEN r ELSE Done(Some(F(r[2][1])), r[3])

\* the match on the first character: the outcome of the shift it performs,
\* or None for any other character
from_str_match(first, today, offset, b) ==
    CASE first \in {100, 68} -> shift_in(today, "Day", offset, b)
      [] first = 121 -> shift_in(first_of(today, "Year"), "Year", offset, b)
      [] first = 89 -> shift_in(last_of(today, "Year"), "Year", offset, b)
      [] first = 109 -> shift_in(first_of(today, "Month"), "Month", offset, b)
      [] first = 77 -> map_shifted(shift_in(today, "Month", offset, b),
                                   LAMBDA dt : last_of(dt, "Month"))
      [] OTHER -> Done(None, FALSE)

\* from_str_match(..).ok_or(Self::Err::InvalidFirstChar)
from_str_relative(bytes, today, offset, b) ==
    LET r == from_str_match(bytes[1], today, offset, b)
    IN  IF r = Panicked THEN Panicked
        ELSE IF r[2] = None THEN DateErr("InvalidFirstChar")
        ELSE Ok(r[2][1])

\* impl FromStr for Date, with today() as a parameter
Date_from_str(bytes, today, b) ==
    IF bytes = <<>> THEN DateErr("Empty")
    ELSE IF IsDigitByte(bytes[1])
    THEN LET x == parse_naive_date(bytes)
         IN  IF x = None THEN DateErr("BadFormat")
             ELSE LET dt == from_ymd(x[1][1], x[1][2], x[1][3])
                  IN  IF dt = None THEN DateErr("OutOfRange") ELSE Ok(dt[1])
    ELSE IF Len(bytes) = 1
    THEN from_str_relative(bytes, today, 0, b)
    ELSE IF ~from_utf8_ok(SubSeq(bytes, 2, Len(bytes)), 1)
    THEN DateErr("InvalidFirstChar")
    ELSE LET offset == parse_i32(SubSeq(bytes, 2, Len(bytes)))
         IN  IF offset = None THEN DateErr("InvalidOffset")
             ELSE from_str_relative(bytes, today, offset[1], b)

----------------------------------------------------------------------------
(* Interval::iter *)

min_date(a, b) == IF a <= b THEN a ELSE b

\* iter without the is_empty test
iter_of_empty(self, part) ==
    Some([start |-> self.start,
          end   |-> min_date(last_of(self.start, part), self.end)])

\* Interval::iter: the Iter it returns, as its field next
iter(self, part) ==
    IF is_empty(self) THEN None
    ELSE Some([start |-> self.start,
               end   |-> min_date(last_of(self.start, part), self.end)])

iter_advance_unaligned(bounds, part, i) ==
    LET dt == shift(i.start, part, 1)
    IN  IF dt = None THEN None
        ELSE LET start == dt[1]
                 end   == min_date(last_of(dt[1], part), bounds.end)
             IN  IF start <= end THEN Some([start |-> start, end |-> end]) ELSE None

\* Iter::next: what self.next becomes after yielding the subinterval i
iter_advance(bounds, part, i) ==
    LET dt == shift(i.start, part, 1)
    IN  IF dt = None THEN None
        ELSE LET start == first_of(dt[1], part)
                 end   == min_date(last_of(dt[1], part), bounds.end)
             IN  IF start <= end THEN Some([start |-> start, end |-> end]) ELSE None

----------------------------------------------------------------------------
(* Interval: equality and hashing *)

\* Interval::EMPTY
Interval_EMPTY == [start |-> Date_MAX, end |-> Date_MIN]

\* impl PartialEq for Interval
eq(self, other) ==
    \/ is_empty(self) /\ is_empty(other)
    \/ self.start = other.start /\ self.end = other.end

\* hashing the bounds as they are
hash_of_bounds(self) == <<self.start, self.end>>

\* impl Hash for Interval: the values fed to the Hasher, of which the hash
\* is a function
hash(self) ==
    LET interval == IF is_empty(self) THEN Interval_EMPTY ELSE self
    IN  <<interval.start, interval.end>>

----------------------------------------------------------------------------
(* Limits and Limitkind.  A Cents is written as the integer it holds; the
   amounts of the model are far from the ends of i64. *)

\* BTreeMap::insert: the entry of the key replaced, or a new entry placed in
\* key order
btree_insert(m, k, v) ==
    IF \E i \in 1..Len(m) : m[i][1] = k
    THEN [i \in 1..Len(m) |-> IF m[i][1] = k THEN <<k, v>> ELSE m[i]]
    ELSE vec_insert(m, partition_point([i \in 1..Len(m) |-> m[i][1] < k]), <<k, v>>)

\* BTreeMap::remove: <<the map afterwards, the value removed if any>>
btree_remove(m, k) ==
    IF \E i \in 1..Len(m) : m[i][1] = k
    THEN LET i == CHOOSE i \in 1..Len(m) : m[i][1] = k
         IN  <<vec_remove(m, i - 1), Some(m[i][2])>>
    ELSE <<m, None>>

\* Limits::set
set(self, yr, limit) == btree_insert(self, yr, limit)

\* Limits::remove
limits_remove(self, yr) == btree_remove(self, yr)

\* Limits::range(..=year)
range_to_inclusive(self, yr) == SelectSeq(self, LAMBDA entry : entry[1] <= yr)

\* Limits::range(..year)
range_to_exclusive(self, yr) == SelectSeq(self, LAMBDA entry : entry[1] < yr)

\* Iterator::sum over a sequence of Cents
RECURSIVE sum(_)
sum(v) == IF v = <<>> THEN 0 ELSE v[1] + sum(Tail(v))

\* Iterator::map over a sequence
map(v, F(_)) == [i \in 1..Len(v) |-> F(v[i])]

\* inception_to_year summing the years before the given one only
inception_before_year(self, yr) ==
    sum(map(range_to_exclusive(self, yr), LAMBDA entry : entry[2]))

\* Limits::inception_to_year
inception_to_year(self, yr) ==
    sum(map(range_to_inclusive(self, yr), LAMBDA entry : entry[2]))

\* Record::amount
amount(r) == r.amount

\* Limitkind::remaining_rrsp
remaining_rrsp(limits, rl, yr) ==
    LET contributions ==
            sum(map(rl, LAMBDA r : IF year(date(r)) <= yr /\ amount(r) > 0
                                   THEN amount(r) ELSE 0))
    IN  inception_to_year(limits, yr) - contributions

\* remaining_tfsa restoring the withdrawals of the year itself too
remaining_tfsa_same_year(limits, rl, yr) ==
    LET contributions ==
            sum(map(rl, LAMBDA r : IF year(date(r)) <= yr /\ amount(r) > 0
                                   THEN amount(r) ELSE 0))
        withdrawals ==
            sum(map(rl, LAMBDA r : IF year(date(r)) <= yr /\ amount(r) < 0
                                   THEN 0 - amount(r) ELSE 0))
    IN  inception_to_year(limits, yr) - contributions + withdrawals

\* Limitkind::remaining_tfsa
remaining_tfsa(limits, rl, yr) ==
    LET contributions ==
            sum(map(rl, LAMBDA r : IF year(date(r)) <= yr /\ amount(r) > 0
                                   THEN amount(r) ELSE 0))
        withdrawals_before_year ==
            sum(map(rl, LAMBDA r : IF year(date(r)) < yr /\ amount(r) < 0
                                   THEN 0 - amount(r) ELSE 0))
    IN  inception_to_year(limits, yr) - contributions + withdrawals_before_year

\* Limitkind::remaining
remaining(self, limits, rl, yr) ==
    IF self = "Rrsp" THEN remaining_rrsp(limits, rl, yr)
    ELSE remaining_tfsa(limits, rl, yr)

----------------------------------------------------------------------------
(* Aggregate<K, V>.  The HashMap m is a function from the keys it holds; V is
   written as an integer far from the ends of its type. *)

\* Aggregate::default()
Aggregate_default == [m |-> <<>>, sum |-> 0]

\* HashMap::entry(key).or_default(): the map with the key present
or_default(m, key) ==
    IF key \in DOMAIN m THEN m
    ELSE [k \in DOMAIN m \cup {key} |-> IF k = key THEN 0 ELSE m[k]]

\* add storing the value in place of the sum
add_overwriting(self, key, value) ==
    [m   |-> [or_default(self.m, key) EXCEPT ![key] = value],
     sum |-> self.sum + value]

\* Aggregate::add
add(self, key, value) ==
    [m   |-> [or_default(self.m, key) EXCEPT ![key] = @ + value],
     sum |-> self.sum + value]

\* Aggregate::get
Aggregate_get(self, key) ==
    IF key \in DOMAIN self.m THEN Some(self.m[key]) ELSE None

\* Aggregate::sum
Aggregate_sum(self) == self.sum

\* impl PartialEq for Aggregate
Aggregate_eq(self, other) ==
    /\ DOMAIN self.m = DOMAIN other.m
    /\ \A k \in DOMAIN self.m : self.m[k] = other.m[k]
    /\ self.sum = other.sum

\* impl FromIterator<(K, V)> for Aggregate: the pairs from position i on
\* added to agg
RECURSIVE from_iter_from(_, _, _)
from_iter_from(pairs, i, agg) ==
    IF i > Len(pairs) THEN agg
    ELSE from_iter_from(pairs, i + 1, add(agg, pairs[i][1], pairs[i][2]))

Aggregate_from_iter(pairs) == from_iter_from(pairs, 1, Aggregate_default)

----------------------------------------------------------------------------
(* The Recordlist state machine *)

Batches == UNION {[1..n -> Record] : n \in 0..MaxBatch}

Iids == {0, 1, 2, 3, USIZE_MAX}

\* the records of date d among v, in the order of v
OnDate(v, d) == SelectSeq(v, LAMBDA r : date(r) = d)

\* the Cents variables while the Recordlist runs
CentsIdle ==
    /\ build = "release"
    /\ cents = I64(0)
    /\ text = <<>>
    /\ shown = <<"unset">>
    /\ lens = <<"unset">>
    /\ parsed = <<"unset">>
    /\ reparsed = <<"unset">>

\* the interval iterator's variables while another component runs
IterIdle ==
    /\ it_bounds = [start |-> Date_MAX, end |-> Date_MIN]
    /\ it_part = "Day"
    /\ it_next = None
    /\ it_out = <<>>
    /\ it_done = FALSE
    /\ it_prev = <<>>

\* the compared intervals while another component runs
EqIdle ==
    /\ ie_x = [start |-> Date_MAX, end |-> Date_MIN]
    /\ ie_y = [start |-> Date_MAX, end |-> Date_MIN]
    /\ ie_z = [start |-> Date_MAX, end |-> Date_MIN]
    /\ ie_res = <<>>

\* the Date experiments while another component runs
DateIdle ==
    /\ dt_build = "release"
    /\ dt_self = Date_MIN
    /\ dt_part = "Day"
    /\ dt_offset = 0
    /\ dt_shifted = <<"unset">>
    /\ dt_text = <<>>
    /\ dt_parsed = <<"unset">>

\* the Recordlist variables while another component runs
RecordlistIdle ==
    /\ list = <<>>
    /\ byDate = [d \in RecordDates |-> <<>>]
    /\ call = <<"idle">>
    /\ ret = None
    /\ old = <<>>

\* the Limits variables while another component runs
LimitsIdle ==
    /\ lm_limits = <<>>
    /\ lm_log = <<>>
    /\ lm_records = <<>>
    /\ lm_ret = <<"idle">>

\* the Aggregate variables while another component runs
AggregateIdle ==
    /\ ag_self = [m |-> <<>>, sum |-> 0]
    /\ ag_log = <<>>
    /\ ag_other = <<>>
    /\ ag_ret = <<"idle">>

\* the Output variables while another component runs
OutputIdle ==
    /\ ou_output = <<"Idle">>
    /\ ou_colorize = FALSE
    /\ ou_text = <<>>

\* the Category variables while another component runs
CategoryIdle ==
    /\ ca_text = <<>>
    /\ ca_parsed = <<"unset">>
    /\ ca_ret = <<>>

\* the report variables while another component runs
ReportIdle ==
    /\ rp_config = <<"Idle">>
    /\ rp_build = "release"
    /\ rp_built = <<>>
    /\ rp_text = <<>>

\* the files and the command line while another component runs
CliIdle ==
    /\ fs_config = <<>>
    /\ fs_rl = <<>>
    /\ fs_limits = <<>>
    /\ cl_cmd = <<"Idle">>
    /\ cl_res = <<"Idle">>
    /\ cl_before = <<>>

\* every component but one
IdleButRecordlist ==
    CentsIdle /\ IterIdle /\ EqIdle /\ DateIdle /\ LimitsIdle /\ AggregateIdle /\ OutputIdle
    /\ CategoryIdle /\ ReportIdle /\ CliIdle
IdleButCents ==
    RecordlistIdle /\ IterIdle /\ EqIdle /\ DateIdle /\ LimitsIdle /\ AggregateIdle /\ OutputIdle
    /\ CategoryIdle /\ ReportIdle /\ CliIdle
IdleButIter ==
    RecordlistIdle /\ CentsIdle /\ EqIdle /\ DateIdle /\ LimitsIdle /\ AggregateIdle /\ OutputIdle
    /\ CategoryIdle /\ ReportIdle /\ CliIdle
IdleButEq ==
    RecordlistIdle /\ CentsIdle /\ IterIdle /\ DateIdle /\ LimitsIdle /\ AggregateIdle /\ OutputIdle
    /\ CategoryIdle /\ ReportIdle /\ CliIdle
IdleButDate ==
    RecordlistIdle /\ CentsIdle /\ IterIdle /\ EqIdle /\ LimitsIdle /\ AggregateIdle /\ OutputIdle
    /\ CategoryIdle /\ ReportIdle /\ CliIdle
IdleButLimits ==
    RecordlistIdle /\ CentsIdle /\ IterIdle /\ EqIdle /\ DateIdle /\ AggregateIdle /\ OutputIdle
    /\ CategoryIdle /\ ReportIdle /\ CliIdle
IdleButAggregate ==
    RecordlistIdle /\ CentsIdle /\ IterIdle /\ EqIdle /\ DateIdle /\ LimitsIdle /\ OutputIdle
    /\ CategoryIdle /\ ReportIdle /\ CliIdle
IdleButOutput ==
    /\ RecordlistIdle /\ CentsIdle /\ IterIdle /\ EqIdle /\ DateIdle /\ LimitsIdle
    /\ AggregateIdle
    /\ CategoryIdle /\ ReportIdle /\ CliIdle
IdleButCategory ==
    /\ RecordlistIdle /\ CentsIdle /\ IterIdle /\ EqIdle /\ DateIdle /\ LimitsIdle
    /\ AggregateIdle /\ OutputIdle /\ ReportIdle /\ CliIdle
IdleButReport ==
    /\ RecordlistIdle /\ CentsIdle /\ IterIdle /\ EqIdle /\ DateIdle /\ LimitsIdle
    /\ AggregateIdle /\ OutputIdle /\ CategoryIdle /\ CliIdle
IdleButCli ==
    /\ RecordlistIdle /\ CentsIdle /\ IterIdle /\ EqIdle /\ DateIdle /\ LimitsIdle
    /\ AggregateIdle /\ OutputIdle /\ CategoryIdle /\ ReportIdle

\* Recordlist construction: iter.collect::<Recordlist>() of an unordered
\* batch (FromIterator -> from_vec); the empty batch is Recordlist::new()
Init ==
    \E batch \in Batches :
        /\ list = from_vec(batch)
        /\ byDate = [d \in RecordDates |-> OnDate(batch, d)]
        /\ call = <<"from_iter", batch>>
        /\ ret = None
        /\ old = <<>>
        /\ IdleButRecordlist

Insert(r) ==
    /\ UNCHANGED nonRlVars
    /\ Len(list) < MaxLen
    /\ list' = insert(list, r)
    /\ byDate' = [byDate EXCEPT ![date(r)] = Append(@, r)]
    /\ call' = <<"insert", r>>
    /\ ret' = None
    /\ old' = list

Get(dt, iid) ==
    /\ UNCHANGED nonRlVars
    /\ ret' = get(list, dt, iid)
    /\ call' = <<"get", dt, iid>>
    /\ old' = list
    /\ UNCHANGED <<list, byDate>>

Remove(dt, iid) ==
    /\ UNCHANGED nonRlVars
    /\ list' = remove(list, dt, iid)[1]
    /\ ret' = remove(list, dt, iid)[2]
    /\ byDate' = IF iid < Len(byDate[dt])
                 THEN [byDate EXCEPT ![dt] = vec_remove(@, iid)]
                 ELSE byDate
    /\ call' = <<"remove", dt, iid>>
    /\ old' = list

SliceSpanningInterval(interval) ==
    /\ UNCHANGED nonRlVars
    /\ ret' = slice_spanning_interval(list, interval)
    /\ call' = <<"slice_spanning_interval", interval>>
    /\ old' = list
    /\ UNCHANGED <<list, byDate>>

IterWithIid ==
    /\ UNCHANGED nonRlVars
    /\ ret' = iter_with_iid(list)
    /\ call' = <<"iter_with_iid">>
    /\ old' = list
    /\ UNCHANGED <<list, byDate>>

Next ==
    \/ \E r \in Record : Insert(r)
    \/ \E dt \in RecordDates, iid \in Iids : Get(dt, iid)
    \/ \E dt \in RecordDates, iid \in Iids : Remove(dt, iid)
    \/ \E interval \in Interval : SliceSpanningInterval(interval)
    \/ IterWithIid

Spec == Init /\ [][Next]_vars

----------------------------------------------------------------------------
(* Cents: formatting and parsing as a state machine over chosen inputs *)

Unset == <<"unset">>

\* the values formatted: every amount up to MaxCents either side of zero, the
\* powers of ten where the rendering grows a digit or a comma, and the ends
\* of the i64 range
CentsInputs ==
    {I64(n) : n \in (0 - MaxCents)..MaxCents}
    \cup {[neg |-> sg, mag |-> m] :
            sg \in BOOLEAN, m \in {Pow10(k) : k \in 3..18} \cup {Nines(k) : k \in 3..18}}
    \cup {I64_MAX, I64_MIN,
          [neg |-> TRUE, mag |-> I64_MAX.mag]}

\* the characters strings are made of: 0 1 9 + - . , x
Alphabet == {48, 49, 57, 43, 45, 46, 44, 120}

Strings == UNION {[1..n -> Alphabet] : n \in 0..MaxStr}

Builds == {"debug", "release"}

CentsInit ==
    /\ build \in Builds
    /\ \/ cents \in CentsInputs /\ text = <<>>
       \/ cents = I64(0) /\ text \in Strings
    /\ shown = Unset
    /\ lens = Unset
    /\ parsed = Unset
    /\ reparsed = Unset
    /\ IdleButCents

\* cents.to_string()
Display ==
    /\ shown' = to_string(cents, build)
    /\ UNCHANGED <<build, cents, text, lens, parsed, reparsed>>
    /\ UNCHANGED nonCentsVars

\* cents.charlen() and cents.charlen_for_alignment()
Charlen ==
    /\ lens' = <<charlen(cents, build), charlen_for_alignment(cents, build)>>
    /\ UNCHANGED <<build, cents, text, shown, parsed, reparsed>>
    /\ UNCHANGED nonCentsVars

\* text.parse::<Cents>()
FromStr ==
    /\ parsed' = from_str(text)
    /\ UNCHANGED <<build, cents, text, shown, lens, reparsed>>
    /\ UNCHANGED nonCentsVars

\* cents.to_string().parse::<Cents>()
ParseShown ==
    /\ shown # Unset
    /\ shown # Panicked
    /\ reparsed' = from_str(shown[2])
    /\ UNCHANGED <<build, cents, text, shown, lens, parsed>>
    /\ UNCHANGED nonCentsVars

\* the value parsed becomes the value formatted
Reformat ==
    /\ parsed # Unset
    /\ parsed # Err
    /\ cents' = parsed[2]
    /\ shown' = Unset
    /\ lens' = Unset
    /\ reparsed' = Unset
    /\ UNCHANGED <<build, text, parsed>>
    /\ UNCHANGED nonCentsVars

CentsNext == Display \/ Charlen \/ FromStr \/ ParseShown \/ Reformat

SpecCents == CentsInit /\ [][CentsNext]_vars

----------------------------------------------------------------------------
(* Interval::iter as a state machine over chosen intervals *)

\* the dates interval bounds are drawn from: the first and the last days of
\* months of MaxYears + 1 years around a leap year, and of the last two
\* years a Date can hold
IterYears == FirstYear..(FirstYear + MaxYears) \cup {year(Date_MAX) - 1, year(Date_MAX)}

IterDays == {ymd(y, m, d) : y \in IterYears, m \in {1, 2, 12}, d \in {1, 28, 29, 31}}

IterDates == {dt \in IterDays : from_ymd(year(dt), month(dt), day(dt)) # None}

\* the intervals subdivided: any empty one, and the non-empty ones that span
\* at most MaxYears years, or MaxDays days when the unit is the day
IterInputs(part) ==
    {i \in [start : IterDates, end : IterDates] :
        \/ is_empty(i)
        \/ /\ year(i.end) - year(i.start) <= MaxYears
           /\ part = "Day" => days_of(i.end) - days_of(i.start) <= MaxDays}

IterInit ==
    /\ it_part \in Datepart
    /\ it_bounds \in IterInputs(it_part)
    /\ it_next = iter(it_bounds, it_part)
    /\ it_out = <<>>
    /\ it_done = FALSE
    /\ it_prev = None
    /\ IdleButIter

\* Iter::next returning Some(i)
IterYield ==
    /\ it_next # None
    /\ it_out' = Append(it_out, it_next[1])
    /\ it_next' = iter_advance(it_bounds, it_part, it_next[1])
    /\ UNCHANGED <<it_bounds, it_part, it_done, it_prev>>
    /\ UNCHANGED nonIterVars

\* Iter::next returning None
IterEnd ==
    /\ it_next = None
    /\ it_done' = TRUE
    /\ UNCHANGED <<it_bounds, it_part, it_next, it_out, it_prev>>
    /\ UNCHANGED nonIterVars

\* interval.iter(part) invoked again on the same interval (Interval is Copy),
\* once the first iterator is exhausted
IterAgain ==
    /\ it_done
    /\ it_prev = None
    /\ it_prev' = Some(it_out)
    /\ it_next' = iter(it_bounds, it_part)
    /\ it_out' = <<>>
    /\ it_done' = FALSE
    /\ UNCHANGED <<it_bounds, it_part>>
    /\ UNCHANGED nonIterVars

IterNext == IterYield \/ IterEnd \/ IterAgain

SpecInterval == IterInit /\ [][IterNext]_vars

\* what the caller of the iterator observes of a step: the value next()
\* returns, or the second invocation of iter
callVars == <<it_out, it_done, it_prev>>

NextCalled ==
    \/ /\ it_next # None
       /\ it_out' = Append(it_out, it_next[1])
       /\ UNCHANGED <<it_done, it_prev>>
    \/ /\ it_next = None
       /\ it_done' = TRUE
       /\ UNCHANGED <<it_out, it_prev>>
    \/ /\ it_done
       /\ it_prev = None
       /\ it_prev' = Some(it_out)
       /\ it_out' = <<>>
       /\ it_done' = FALSE

\* the caller keeps calling next() until it returns None (a for loop consuming
\* the iterator), and then performs its second invocation
SpecIntervalFair == SpecInterval /\ WF_callVars(NextCalled)

----------------------------------------------------------------------------
(* Recordlist: properties *)

SortedByDate(l) == \A a, b \in 1..Len(l) : a < b => date(l[a]) <= date(l[b])

\* how many records of l are dated d
CountOn(l, d) == Cardinality({k \in 1..Len(l) : date(l[k]) = d})

\* the index-in-date of element k (one-based) of l: how many records of the
\* same date stand before it
IidAt(l, k) == Cardinality({m \in 1..(k - 1) : date(l[m]) = date(l[k])})

\* C1: after construction from an unordered batch and after every insert and
\* every remove, successful or not, the records are in non-decreasing date order.
C1_SortedAtAllTimes == SortedByDate(list)

\* a list of three or more records built from a batch that was not in date order
C1_Witness ==
    /\ call[1] = "from_iter"
    /\ ~SortedByDate(call[2])
    /\ Len(list) >= 3

\* C2: insert(r) puts r after every record dated <= r.date and before every
\* later one, so that its index-in-date is the number of records that already
\* had its date; the records that were there keep their order and their
\* (date, iid) addresses, and the length grows by one.
C2_InsertPlacement ==
    call[1] = "insert" =>
        LET r == call[2]
        IN  /\ Len(list) = Len(old) + 1
            /\ \E p \in 1..Len(list) :
                  /\ list[p] = r
                  /\ \A m \in 1..(p - 1) : date(list[m]) <= date(r)
                  /\ \A m \in (p + 1)..Len(list) : date(list[m]) > date(r)
                  /\ IidAt(list, p) = CountOn(old, date(r))
                  /\ vec_remove(list, p - 1) = old
                  /\ \A m \in 1..Len(old) :
                        LET at == IF m < p THEN m ELSE m + 1
                        IN  /\ list[at] = old[m]
                            /\ IidAt(list, at) = IidAt(old, m)

\* an insert between records of its own date before it and a later date after it
C2_Witness ==
    /\ call[1] = "insert"
    /\ CountOn(old, date(call[2])) >= 1
    /\ \E m \in 1..Len(old) : date(old[m]) > date(call[2])
    /\ \E m \in 1..Len(old) : date(old[m]) = date(call[2]) /\ old[m] # call[2]

\* C3: remove(date, iid) and get(date, iid) return None when iid is not
\* smaller than the number of records of that date (no record of the date, an
\* empty list, position + iid overflowing), and the list is then as it was.
C3_OutOfRangeIsNone ==
    (call[1] \in {"remove", "get"} /\ call[3] >= CountOn(old, call[2])) =>
        (ret = None /\ list = old)

\* a remove whose position + iid overflows usize
C3_Witness ==
    /\ call[1] = "remove"
    /\ call[3] = USIZE_MAX
    /\ \E m \in 1..Len(old) : date(old[m]) < call[2]
    /\ CountOn(old, call[2]) >= 1
    /\ ret = None

\* C4: after a successful remove(date, iid), get(date, iid) is the record that
\* was at (date, iid + 1) if there was one and None otherwise; the record
\* removed is the one get(date, iid) returned before.
C4_RemoveShifts ==
    (call[1] = "remove" /\ ret # None) =>
        LET dt  == call[2]
            iid == call[3]
            was == OnDate(old, dt)
        IN  /\ iid < Len(was)
            /\ ret = Some(was[iid + 1])
            /\ ret = get(old, dt, iid)
            /\ get(list, dt, iid) = get(old, dt, iid + 1)
            /\ get(list, dt, iid) =
                  (IF iid + 1 < Len(was) THEN Some(was[iid + 2]) ELSE None)
            /\ Len(list) = Len(old) - 1

\* a remove of a record that is not the first of its date and has a different
\* record after it on the same date
C4_Witness ==
    /\ call[1] = "remove"
    /\ ret # None
    /\ call[3] = 1
    /\ CountOn(old, call[2]) >= 3
    /\ get(list, call[2], 1) # ret
    /\ get(old, call[2], 0) # ret

\* C5: slice_spanning_interval returns exactly the records dated within the
\* interval, as one contiguous run in stored order, and nothing for an empty
\* interval; the slice for a single date lists that date's records in the
\* order they were inserted.
C5_SliceIsTheInterval ==
    call[1] = "slice_spanning_interval" =>
        LET interval == call[2]
        IN  /\ ret = SelectSeq(list, LAMBDA r : interval.start <= date(r)
                                              /\ date(r) <= interval.end)
            /\ \E i, j \in 0..Len(list) : ret = SubSeq(list, i + 1, j)
            /\ is_empty(interval) => ret = <<>>
            /\ (interval.start = interval.end /\ interval.start \in RecordDates)
                  => ret = byDate[interval.start]

\* a slice that leaves out records on both sides
C5_Witness ==
    /\ call[1] = "slice_spanning_interval"
    /\ Len(ret) >= 2
    /\ ret[1] # ret[2]
    /\ call[2].start = call[2].end
    /\ \E m \in 1..Len(list) : date(list[m]) < call[2].start
    /\ \E m \in 1..Len(list) : date(list[m]) > call[2].end

\* C6: iter_with_iid yields every record in stored order with an iid that is
\* 0 for the first record and for every record whose date differs from its
\* predecessor's, and the predecessor's iid + 1 otherwise.
C6_IidRestartsPerDate ==
    call[1] = "iter_with_iid" =>
        /\ Len(ret) = Len(list)
        /\ \A k \in 1..Len(list) :
              /\ ret[k][2] = list[k]
              /\ ret[k][1] = (IF k = 1 \/ date(list[k]) # date(list[k - 1])
                              THEN 0
                              ELSE ret[k - 1][1] + 1)

\* two records of one date followed by a record of another
C6_Witness ==
    /\ call[1] = "iter_with_iid"
    /\ Len(ret) >= 3
    /\ \E k \in 2..(Len(ret) - 1) : ret[k][1] = 1 /\ ret[k + 1][1] = 0

----------------------------------------------------------------------------
(* Cents: properties *)

DecimalValue(str) ==
    LET s      == SelectSeq(str, LAMBDA c : c # 44)
        signed == s # <<>> /\ s[1] \in {43, 45}
        body   == IF signed THEN Tail(s) ELSE s
        points == {k \in 1..Len(body) : body[k] = 46}
        p      == IF points = {} THEN Len(body) + 1 ELSE CHOOSE k \in points : TRUE
        int    == SubSeq(body, 1, p - 1)
        frac   == SubSeq(body, p + 1, Len(body))
        frac2  == SubSeq(frac \o <<48, 48>>, 1, 2)
        m      == MagOfDigits(int \o frac2)
    IN  IF \/ Cardinality(points) > 1
           \/ \E k \in 1..Len(body) : body[k] # 46 /\ ~IsDigitByte(body[k])
           \/ int \o frac = <<>>
        THEN Err
        ELSE Ok([neg |-> signed /\ s[1] = 45 /\ m # <<>>, mag |-> m])

\* C8: from_str ignores commas, accepts an optional leading sign and an
\* optional decimal point, returns sign * (integer part * 100 + the first two
\* fraction digits, zero-padded) and fails on the empty string, on a string
\* of only a sign and/or a point, and on a non-digit anywhere else.
C8_FromStrContract == parsed # Unset => parsed = DecimalValue(text)

\* to_string(c) as C9 describes it: the digits of |c|, at least three, a
\* point before the last two, a comma before every group of three integer
\* digits, and parentheses around a negative value
WellFormed(bytes, c) ==
    LET body == IF c.neg THEN SubSeq(bytes, 2, Len(bytes) - 1) ELSE bytes
        n    == Len(body)
        ip   == SubSeq(body, 1, n - 3)
        ds   == SelectSeq(ip, LAMBDA x : x # 44) \o SubSeq(body, n - 1, n)
    IN  /\ c.neg => (Len(bytes) >= 2 /\ bytes[1] = 40 /\ bytes[Len(bytes)] = 41)
        /\ n >= 4
        /\ body[n - 2] = 46
        /\ \A q \in 1..Len(ip) : (ip[Len(ip) + 1 - q] = 44) <=> (q % 4 = 0)
        /\ ip[1] # 44
        /\ \A k \in 1..Len(ds) : IsDigitByte(ds[k])
        /\ MagOfDigits(ds) = c.mag
        /\ (Len(ds) > 3 => ds[1] # 48)

\* C9: for every Cents value, charlen is the length of to_string, the
\* rendering is digits with a point before the last two, a comma every three
\* integer digits and parentheses when negative, charlen_for_alignment is
\* charlen + 1 for c >= 0 and charlen for c < 0, and nothing overflows.
C9_CharlenIsRenderedLength ==
    (lens # Unset /\ shown # Unset) =>
        /\ shown # Panicked /\ lens[1] # Panicked /\ lens[2] # Panicked
        /\ ~shown[3] /\ ~lens[1][3] /\ ~lens[2][3]
        /\ lens[1][2] = Len(shown[2])
        /\ WellFormed(shown[2], cents)
        /\ lens[2][2] = lens[1][2] + (IF cents.neg THEN 0 ELSE 1)

\* C9 holds of every value but i64::MIN, the one value abs() overflows on
Aux_C9_ExceptMin == cents # I64_MIN => C9_CharlenIsRenderedLength

\* from_str departs from DecimalValue only by accepting strings it is to reject
Aux_C8_OnlyAcceptsMore == parsed # Unset => (parsed = DecimalValue(text) \/ (parsed # Err /\ DecimalValue(text) = Err /\ Len(text) >= 2))

----------------------------------------------------------------------------
(* Interval::iter: properties *)

\* the day after a date
DayAfter(dt) ==
    LET t == date_of_days(days_of(dt) + 1) IN ymd(t[1], t[2], t[3])

\* dt is the first day of its year, month or day
IsFirstOfUnit(dt, part) ==
    /\ part = "Year" => (month(dt) = 1 /\ day(dt) = 1)
    /\ part = "Month" => day(dt) = 1

\* dt is the last day of its year, month or day
IsLastOfUnit(dt, part) ==
    /\ part = "Year" => (month(dt) = 12 /\ day(dt) = 31)
    /\ part = "Month" => day(DayAfter(dt)) = 1

\* C10: the subintervals i.iter(p) yields for a non-empty interval i are each
\* non-empty, strictly ordered by start, pairwise disjoint and contiguous, the
\* first starts at i.start and the last ends at i.end; every start but the
\* first is the first day of its unit and every end but the last is the last
\* day of its unit.
C10_IterPartitions ==
    ~is_empty(it_bounds) =>
        /\ \A k \in 1..Len(it_out) : it_out[k].start <= it_out[k].end
        /\ \A a, b \in 1..Len(it_out) :
              a < b => (it_out[a].start < it_out[b].start
                        /\ it_out[a].end < it_out[b].start)
        /\ \A k \in 2..Len(it_out) :
              /\ it_out[k].start = DayAfter(it_out[k - 1].end)
              /\ IsFirstOfUnit(it_out[k].start, it_part)
              /\ IsLastOfUnit(it_out[k - 1].end, it_part)
        /\ it_out # <<>> => it_out[1].start = it_bounds.start
        /\ \A k \in 1..Len(it_out) : it_out[k].end <= it_bounds.end
        /\ it_next = None =>
              (it_out # <<>> /\ it_out[Len(it_out)].end = it_bounds.end)
        /\ it_done => it_next = None

\* a subdivision into months that starts on a 31st, crosses the February of
\* a leap year and ends inside a month
C10_Witness ==
    /\ it_done
    /\ it_part = "Month"
    /\ day(it_bounds.start) = 31
    /\ day(it_bounds.end) = 28
    /\ Len(it_out) >= 3
    /\ \E k \in 1..Len(it_out) : month(it_out[k].end) = 2 /\ day(it_out[k].end) = 29

----------------------------------------------------------------------------
(* Interval::iter: termination *)

\* how many calendar units of the given part an interval touches
UnitsIn(interval, part) ==
    IF is_empty(interval) THEN 0
    ELSE CASE part = "Year"  -> year(interval.end) - year(interval.start) + 1
           [] part = "Month" -> 12 * (year(interval.end) - year(interval.start))
                                  + month(interval.end) - month(interval.start) + 1
           [] part = "Day"   -> days_of(interval.end) - days_of(interval.start) + 1

C11_Safety ==
    /\ Len(it_out) <= UnitsIn(it_bounds, it_part)
    /\ is_empty(it_bounds) => (it_out = <<>> /\ it_next = None)
    /\ it_next # None => it_next[1].start <= it_bounds.end
    /\ it_done => (it_next = None /\ Len(it_out) = UnitsIn(it_bounds, it_part))
    /\ (it_done /\ it_prev # None) => it_prev = Some(it_out)

\* C11: Interval::iter(part) ends after finitely many subintervals: an empty
\* interval yields none, a non-empty one yields one per calendar unit it
\* touches and then stops, also when it ends at 9999-12-31 where the next
\* unit is not representable; a second invocation on the same interval ends
\* too, having yielded the same sequence
C11_IterTerminates ==
    /\ []C11_Safety
    /\ <>[](it_done /\ it_prev = Some(it_out))

\* both invocations have ended on an interval that reaches 9999-12-31 and
\* holds several units
C11_Witness ==
    /\ it_done
    /\ it_prev = Some(it_out)
    /\ it_bounds.end = Date_MAX
    /\ Len(it_out) >= 2

----------------------------------------------------------------------------
(* Interval equality as a state machine over chosen intervals *)

\* the bounds of the intervals compared: the ends of the Date range and two
\* neighbouring days
EqDates == {Date_MIN, 20150330, 20150331, Date_MAX}

EqIntervals == [start : EqDates, end : EqDates]

EqInit ==
    /\ ie_x \in EqIntervals
    /\ ie_y \in EqIntervals
    /\ ie_z \in EqIntervals
    /\ ie_res = None
    /\ IdleButEq

\* x == y, y == x, y == z, x == z, x == x and the three hashes
Compare ==
    /\ ie_res = None
    /\ ie_res' = Some([xx |-> eq(ie_x, ie_x), xy |-> eq(ie_x, ie_y),
                       yx |-> eq(ie_y, ie_x), yz |-> eq(ie_y, ie_z),
                       xz |-> eq(ie_x, ie_z),
                       hx |-> hash(ie_x), hy |-> hash(ie_y)])
    /\ UNCHANGED <<ie_x, ie_y, ie_z>>
    /\ UNCHANGED nonEqVars

EqNext == Compare

SpecIntervalEq == EqInit /\ [][EqNext]_vars

\* C12: Interval equality is reflexive, symmetric and transitive; any two
\* empty intervals (start > end) are equal whatever their bounds; two
\* non-empty intervals are equal exactly when both bounds are equal; equal
\* intervals feed the same values to the hasher
C12_EqIsEquivalence ==
    ie_res # None =>
        LET r == ie_res[1]
        IN  /\ r.xx
            /\ r.xy = r.yx
            /\ (r.xy /\ r.yz) => r.xz
            /\ (is_empty(ie_x) /\ is_empty(ie_y)) => r.xy
            /\ (~is_empty(ie_x) /\ ~is_empty(ie_y)) =>
                  (r.xy <=> (ie_x.start = ie_y.start /\ ie_x.end = ie_y.end))
            /\ r.xy => r.hx = r.hy

\* two empty intervals of different bounds compared equal and hashed alike,
\* and differ from a non-empty one
C12_Witness ==
    /\ ie_res # None
    /\ is_empty(ie_x) /\ is_empty(ie_y)
    /\ ie_x.start # ie_y.start /\ ie_x.end # ie_y.end
    /\ ie_res[1].xy
    /\ ie_res[1].hx = ie_res[1].hy
    /\ ~is_empty(ie_z)
    /\ ~ie_res[1].xz

----------------------------------------------------------------------------
(* Date::shift and Date::from_str as a state machine over chosen inputs *)

\* the dates shifted, and the dates today() is: the ends of the Date range,
\* the leap day of year 0, the today() of the tests, ends of months and of
\* years, a leap day
ShiftDates ==
    {Date_MIN, 229, 20101, 20150131, 20150330, 20151130, 20151231, 20160131,
     20160229, 99990101, Date_MAX}

\* the offsets far from zero: the ends of i32, the offsets around which
\* m - 12 leaves i32, and the lengths of the Date range in years, months
\* and days
FarOffsets ==
    {I32_MIN, I32_MIN + 1, I32_MIN + 10, I32_MIN + 11, I32_MIN + 12,
     I32_MAX - 12, I32_MAX - 11, I32_MAX - 1, I32_MAX,
     0 - 3652425, 0 - 3652424, 0 - 120000, 0 - 119999, 0 - 10000, 0 - 9999,
     0 - 366, 0 - 365, 0 - 100, 0 - 27,
     27, 30, 100, 365, 366, 9999, 10000, 119999, 120000, 3652424, 3652425}

ShiftOffsets == (0 - MaxShift)..MaxShift \cup FarOffsets

\* the decimal digits of n >= 0
RECURSIVE DigitsOf(_)
DigitsOf(n) == IF n < 10 THEN <<48 + n>> ELSE Append(DigitsOf(n \div 10), 48 + (n % 10))

\* the offsets written after the first character: none, every offset up to
\* MaxOffset either side of zero with and without a sign, offsets that leave
\* the Date range and i32, and malformed ones
OffsetTexts ==
    {<<>>}
    \cup {DigitsOf(n) : n \in 0..MaxOffset}
    \cup {<<43>> \o DigitsOf(n) : n \in 0..MaxOffset}
    \cup {<<45>> \o DigitsOf(n) : n \in 0..MaxOffset}
    \cup {DigitsOf(n) : n \in {100, 9999, 10000, 120000, 3652425, I32_MAX}}
    \cup {<<45>> \o DigitsOf(n) : n \in {100, 2016, 10000, 120000, 3652425, I32_MAX}}
    \cup {<<45, 50, 49, 52, 55, 52, 56, 51, 54, 52, 56>>,
          <<50, 49, 52, 55, 52, 56, 51, 54, 52, 56>>,
          <<45, 50, 49, 52, 55, 52, 56, 51, 54, 52, 57>>,
          <<43>>, <<45>>, <<120>>, <<49, 120>>, <<45, 45, 49>>, <<121>>,
          <<195, 169>>, <<49, 46, 48>>}

\* the first characters: d D y Y m M, and a x - + and the two bytes of an
\* accented letter
FirstChars ==
    {<<100>>, <<68>>, <<121>>, <<89>>, <<109>>, <<77>>,
     <<97>>, <<120>>, <<45>>, <<43>>, <<195, 169>>}

\* dates written out: valid ones, ones chrono rejects
AbsoluteTexts ==
    {<<50, 48, 49, 53, 45, 48, 51, 45, 51, 48>>,
     <<48, 48, 48, 48, 45, 48, 49, 45, 48, 49>>,
     <<57, 57, 57, 57, 45, 49, 50, 45, 51, 49>>,
     <<48, 49, 53, 45, 51, 45, 51>>,
     <<48, 48, 48, 48, 45, 48, 48, 45, 48, 49>>,
     <<49, 48, 48, 48, 48, 45, 48, 49, 45, 48, 49>>,
     <<50, 48, 49, 53, 45, 48, 50, 45, 50, 57>>,
     <<50, 48, 49, 54, 45, 48, 50, 45, 50, 57>>,
     <<50, 48, 49, 53, 45, 48, 51>>,
     <<49, 50>>}

DateTexts ==
    {<<>>} \cup AbsoluteTexts \cup {f \o t : f \in FirstChars, t \in OffsetTexts}

DateInit ==
    /\ dt_build \in Builds
    /\ dt_self \in ShiftDates
    /\ \/ /\ dt_part \in Datepart
          /\ dt_offset \in ShiftOffsets
          /\ dt_text = <<>>
       \/ /\ dt_part = "Day"
          /\ dt_offset = 0
          /\ dt_text \in DateTexts
    /\ dt_shifted = Unset
    /\ dt_parsed = Unset
    /\ IdleButDate

\* dt_self.shift(dt_part, dt_offset)
Shift ==
    /\ dt_shifted' = shift_in(dt_self, dt_part, dt_offset, dt_build)
    /\ UNCHANGED <<dt_build, dt_self, dt_part, dt_offset, dt_text, dt_parsed>>
    /\ UNCHANGED nonDateVars

\* dt_text.parse::<Date>() on a day when today() is dt_self
DateFromStr ==
    /\ dt_parsed' = Date_from_str(dt_text, dt_self, dt_build)
    /\ UNCHANGED <<dt_build, dt_self, dt_part, dt_offset, dt_text, dt_shifted>>
    /\ UNCHANGED nonDateVars

DateNext == Shift \/ DateFromStr

SpecDate == DateInit /\ [][DateNext]_vars

----------------------------------------------------------------------------
(* Date::shift: properties *)

\* the months since 0000-01 of the month of d
MonthIndex(d) == 12 * year(d) + (month(d) - 1)

\* whether the date k parts after d lies within [0000-01-01, 9999-12-31]
InRangeShift(d, part, k) ==
    CASE part = "Year"  -> k >= 0 - year(d) /\ k <= year(Date_MAX) - year(d)
      [] part = "Month" -> k >= 0 - MonthIndex(d) /\ k <= MonthIndex(Date_MAX) - MonthIndex(d)
      [] part = "Day"   -> /\ k >= days_of(Date_MIN) - days_of(d)
                           /\ k <= days_of(Date_MAX) - days_of(d)

\* the date k years or months after d: the month index advanced, the day
\* kept unless the target month is shorter
ClampedShift(d, part, k) ==
    LET idx == MonthIndex(d) + (IF part = "Year" THEN 12 * k ELSE k)
        ty  == idx \div 12
        tm  == (idx % 12) + 1
        last == IF tm = 2
                THEN IF ty % 4 = 0 /\ (ty % 100 # 0 \/ ty % 400 = 0) THEN 29 ELSE 28
                ELSE IF tm \in {4, 6, 9, 11} THEN 30 ELSE 31
    IN  ymd(ty, tm, IF day(d) < last THEN day(d) ELSE last)

\* C13: for a valid date d and an offset k whose result is in range,
\* shift(Year, k) and shift(Month, k) return the date whose year or month is
\* advanced by k, months carried into the year, with the day of d unless the
\* target month is shorter (Gregorian leap rule), then its last day;
\* shift(Day, k) returns the date k days later; a shift by 0 returns d
C13_ShiftInRange ==
    (dt_shifted # Unset /\ InRangeShift(dt_self, dt_part, dt_offset)) =>
        /\ dt_shifted # Panicked
        /\ dt_shifted[2] # None
        /\ LET got == dt_shifted[2][1]
           IN  /\ dt_part \in {"Year", "Month"} =>
                     got = ClampedShift(dt_self, dt_part, dt_offset)
               /\ dt_part = "Day" =>
                     /\ days_of(got) - days_of(dt_self) = dt_offset
                     /\ from_ymd(year(got), month(got), day(got)) = Some(got)
               /\ dt_offset = 0 => got = dt_self

\* a month end was shifted by months into a shorter month, across a year
C13_Witness ==
    /\ dt_shifted # Unset
    /\ dt_part = "Month"
    /\ dt_self = 20151231
    /\ dt_offset = 2
    /\ dt_shifted = Done(Some(20160229), FALSE)

\* C14: for every valid date, every i32 offset and every Datepart, shift
\* completes without arithmetic overflow or panic, returns None whenever the
\* shifted date is outside [0000-01-01, 9999-12-31] and never returns a date
\* outside that range
C14_ShiftNeverOverflows ==
    dt_shifted # Unset =>
        /\ dt_shifted # Panicked
        /\ ~dt_shifted[3]
        /\ ~InRangeShift(dt_self, dt_part, dt_offset) => dt_shifted[2] = None
        /\ dt_shifted[2] # None =>
              /\ dt_shifted[2][1] >= Date_MIN
              /\ dt_shifted[2][1] <= Date_MAX

\* C14 holds when no overflow is counted: a release build returns None
\* whenever the shifted date is out of range and never a date out of range;
\* a debug build does too unless it panics
Aux_C14_ResultInRange ==
    (dt_shifted # Unset /\ dt_shifted # Panicked) =>
        /\ ~InRangeShift(dt_self, dt_part, dt_offset) => dt_shifted[2] = None
        /\ dt_shifted[2] # None =>
              /\ dt_shifted[2][1] >= Date_MIN
              /\ dt_shifted[2][1] <= Date_MAX

\* the only overflow is that of m - 12 in a shift by months
Aux_C14_OnlyMonths ==
    (dt_shifted # Unset /\ (dt_shifted = Panicked \/ dt_shifted[3])) =>
        /\ dt_part = "Month"
        /\ month(dt_self) + dt_offset < I32_MIN + 12

----------------------------------------------------------------------------
(* Date::from_str: properties *)

\* the first characters of relative dates: d D y Y m M
RelChars == {100, 68, 121, 89, 109, 77}

\* the offsets written in the relative dates parsed
RelOffsets ==
    (0 - MaxOffset)..MaxOffset
    \cup {100, 9999, 10000, 120000, 3652425, I32_MAX}
    \cup {0 - 100, 0 - 2016, 0 - 10000, 0 - 120000, 0 - 3652425, 0 - I32_MAX, I32_MIN}

\* the ways the offset n is written
OffsetSpellings(n) ==
    IF n = I32_MIN THEN {<<45, 50, 49, 52, 55, 52, 56, 51, 54, 52, 56>>}
    ELSE IF n < 0 THEN {<<45>> \o DigitsOf(0 - n)}
    ELSE {DigitsOf(n), <<43>> \o DigitsOf(n)}
         \cup (IF n = 0 THEN {<<>>, <<45, 48>>} ELSE {})

\* the pairs of first character and offset a string spells
Spelled(str) ==
    IF str = <<>> \/ str[1] \notin RelChars THEN {}
    ELSE {p \in {str[1]} \X RelOffsets :
            SubSeq(str, 2, Len(str)) \in OffsetSpellings(p[2])}

\* the unit a first character counts in
PartOf(c) ==
    CASE c \in {100, 68} -> "Day"
      [] c \in {121, 89} -> "Year"
      [] c \in {109, 77} -> "Month"

\* the date the relative date (c, n) denotes on the day today; it is in
\* range
RelativeDate(c, n, today) ==
    LET t   == date_of_days(days_of(today) + n)
        idx == MonthIndex(today) + n
        ty  == idx \div 12
        tm  == (idx % 12) + 1
        last == IF tm = 2
                THEN IF ty % 4 = 0 /\ (ty % 100 # 0 \/ ty % 400 = 0) THEN 29 ELSE 28
                ELSE IF tm \in {4, 6, 9, 11} THEN 30 ELSE 31
    IN  CASE c \in {100, 68} -> ymd(t[1], t[2], t[3])
          [] c = 121 -> ymd(year(today) + n, 1, 1)
          [] c = 89  -> ymd(year(today) + n, 12, 31)
          [] c = 109 -> ymd(ty, tm, 1)
          [] c = 77  -> ymd(ty, tm, last)

IsFailure(r) == r # Panicked /\ r[1] = "Err"

\* C15: a string whose first character is not a digit is a date relative to
\* today with a signed offset n, 0 when absent: d and D are today plus n
\* days, y and Y the first and the last day of the year n years from
\* today's, m and M the first and the last day of the month n months from
\* today's; parsing fails on the empty string, on any other first
\* character, on a malformed offset and on a result out of range
C15_RelativeDates ==
    (dt_parsed # Unset /\ (dt_text = <<>> \/ ~IsDigitByte(dt_text[1]))) =>
        IF \E p \in Spelled(dt_text) : InRangeShift(dt_self, PartOf(p[1]), p[2])
        THEN \A p \in Spelled(dt_text) :
                dt_parsed = Ok(RelativeDate(p[1], p[2], dt_self))
        ELSE IsFailure(dt_parsed)

\* C15 holds of every string whose parsing does not panic
Aux_C15_UnlessPanic ==
    (dt_parsed # Unset /\ dt_parsed # Panicked
        /\ (dt_text = <<>> \/ ~IsDigitByte(dt_text[1]))) =>
        IF \E p \in Spelled(dt_text) : InRangeShift(dt_self, PartOf(p[1]), p[2])
        THEN \A p \in Spelled(dt_text) :
                dt_parsed = Ok(RelativeDate(p[1], p[2], dt_self))
        ELSE IsFailure(dt_parsed)

\* parsing panics only in a debug build, on m or M with an offset at which
\* m - 12 leaves i32, which is a date far out of range
Aux_C15_PanicOnlyFarMonths ==
    dt_parsed = Panicked =>
        /\ dt_build = "debug"
        /\ \E p \in Spelled(dt_text) :
              /\ p[1] \in {109, 77}
              /\ p[2] < (I32_MIN + 12) - month(dt_self)

\* C16: each failure carries the matching variant: InvalidFirstChar is
\* returned only when the first character is not one of y Y m M d D, and a
\* date before 0000-01-01 or after 9999-12-31 is reported as OutOfRange
C16_MatchingVariant ==
    dt_parsed # Unset =>
        /\ dt_parsed = DateErr("InvalidFirstChar") => dt_text[1] \notin RelChars
        /\ \A p \in Spelled(dt_text) :
              ~InRangeShift(dt_self, PartOf(p[1]), p[2]) =>
                  dt_parsed = DateErr("OutOfRange")

\* the variants that do match: Empty is the empty string, BadFormat a string
\* that starts with a digit, InvalidOffset a valid first character followed
\* by something that is no i32, and a first character that is none of
\* y Y m M d D is InvalidFirstChar or InvalidOffset
Aux_C16_OtherVariants ==
    (dt_parsed # Unset /\ dt_parsed # Panicked) =>
        /\ dt_parsed = DateErr("Empty") <=> dt_text = <<>>
        /\ dt_parsed = DateErr("BadFormat") => IsDigitByte(dt_text[1])
        /\ dt_parsed # DateErr("OutOfRange")
        /\ (dt_parsed = DateErr("InvalidOffset") /\ dt_text[1] \in RelChars) =>
              Spelled(dt_text) = {}
        /\ (dt_text # <<>> /\ ~IsDigitByte(dt_text[1]) /\ dt_text[1] \notin RelChars) =>
              dt_parsed \in {DateErr("InvalidFirstChar"), DateErr("InvalidOffset")}

----------------------------------------------------------------------------
(* Limits as a state machine: set and remove calls on a new Limits *)

LimitYears == {2014, 2015, 2016}

LimitAmounts == {0, 1000, 3000}

\* the years asked about: those that hold limits and one either side
AskedYears == {2013, 2014, 2015, 2016, 2017}

\* Limits::new()
LimitsInit ==
    /\ lm_limits = <<>>
    /\ lm_log = <<>>
    /\ lm_records = <<>>
    /\ lm_ret = <<"new">>
    /\ IdleButLimits

\* limits.set(y, limit)
LimitsSet(y, limit) ==
    /\ Len(lm_log) < MaxCalls
    /\ lm_limits' = set(lm_limits, y, limit)
    /\ lm_log' = Append(lm_log, <<"set", y, limit>>)
    /\ lm_ret' = <<"set", y, limit>>
    /\ UNCHANGED lm_records
    /\ UNCHANGED nonLimitVars

\* limits.remove(y); lm_ret keeps the Limits the call was made on
LimitsRemove(y) ==
    /\ Len(lm_log) < MaxCalls
    /\ lm_limits' = limits_remove(lm_limits, y)[1]
    /\ lm_log' = Append(lm_log, <<"remove", y>>)
    /\ lm_ret' = <<"remove", y, limits_remove(lm_limits, y)[2], lm_limits>>
    /\ UNCHANGED lm_records
    /\ UNCHANGED nonLimitVars

\* limits.inception_to_year(y)
InceptionToYear(y) ==
    /\ lm_ret' = <<"inception_to_year", y, inception_to_year(lm_limits, y)>>
    /\ UNCHANGED <<lm_limits, lm_log, lm_records>>
    /\ UNCHANGED nonLimitVars

LimitsNext ==
    \/ \E y \in LimitYears, limit \in LimitAmounts : LimitsSet(y, limit)
    \/ \E y \in LimitYears : LimitsRemove(y)
    \/ \E y \in AskedYears : InceptionToYear(y)

SpecLimits == LimitsInit /\ [][LimitsNext]_vars

\* the calls of the log that are about year y
CallsAbout(log, y) == SelectSeq(log, LAMBDA c : c[2] = y)

\* what the log says a year holds: the amount of the last set of the year
\* unless a remove of the year follows it
Held(log, y) ==
    LET about == CallsAbout(log, y)
    IN  IF about = <<>> \/ about[Len(about)][1] = "remove" THEN None
        ELSE Some(about[Len(about)][3])

\* the sum of f over the set S
RECURSIVE Total(_, _)
Total(f, S) ==
    IF S = {} THEN 0
    ELSE LET x == CHOOSE x \in S : TRUE IN f[x] + Total(f, S \ {x})

\* the entry of a year in the ledger
Entry(m, y) ==
    IF \E i \in 1..Len(m) : m[i][1] = y
    THEN Some(m[CHOOSE i \in 1..Len(m) : m[i][1] = y][2])
    ELSE None

\* C18: after any sequence of set and remove calls the ledger holds for each
\* year the amount of the last set not followed by a remove of that year, in
\* one entry; inception_to_year(y) is the sum of the held amounts of the
\* years <= y; remove of a year that holds no limit returns None and leaves
\* the ledger unchanged
C18_LimitsLedger ==
    /\ \A y \in LimitYears : Entry(lm_limits, y) = Held(lm_log, y)
    /\ \A i, j \in 1..Len(lm_limits) : i < j => lm_limits[i][1] < lm_limits[j][1]
    /\ \A i \in 1..Len(lm_limits) : lm_limits[i][1] \in LimitYears
    /\ lm_ret[1] = "inception_to_year" =>
          lm_ret[3] = Total([y \in LimitYears |->
                                IF Held(lm_log, y) = None THEN 0 ELSE Held(lm_log, y)[1]],
                            {y \in LimitYears : y <= lm_ret[2]})
    /\ lm_ret[1] = "remove" =>
          /\ lm_ret[3] = Entry(lm_ret[4], lm_ret[2])
          /\ lm_ret[3] = None => lm_limits = lm_ret[4]

\* a year was set, removed and set again, another year overwritten, and the
\* sum up to the year between them asked for
C18_Witness ==
    /\ lm_ret[1] = "inception_to_year"
    /\ lm_ret[2] = 2015
    /\ lm_ret[3] = 4000
    /\ Len(CallsAbout(lm_log, 2014)) = 1
    /\ Len(CallsAbout(lm_log, 2015)) = 2
    /\ Held(lm_log, 2015) = Some(1000)

----------------------------------------------------------------------------
(* Limitkind::remaining as a state machine over chosen limits and records *)

\* the years that may hold a limit, in order
RoomYears == <<2015, 2016>>

RoomAmounts == {3000, 5000}

\* the Limits that the set calls for the years f gives an amount build
LimitsOf(f) ==
    LET kept == SelectSeq(RoomYears, LAMBDA y : f[y] # None)
    IN  [i \in 1..Len(kept) |-> <<kept[i], f[kept[i]][1]>>]

LimitsInputs ==
    {LimitsOf(f) : f \in [{2015, 2016} -> {None} \cup {Some(a) : a \in RoomAmounts}]}

\* records of the year before the limits, of the first year of the limits
\* and of the year after it: contributions, withdrawals and zero amounts
RoomRecord ==
    [date : {20141231, 20150615, 20160101}, category : Categories,
     amount : {0 - 1000, 0, 2000}, note : Notes]

RoomBatches == UNION {[1..n -> RoomRecord] : n \in 0..MaxRecords}

RemainingInit ==
    /\ lm_limits \in LimitsInputs
    /\ lm_log = <<>>
    /\ \E batch \in RoomBatches : lm_records = from_vec(batch)
    /\ lm_ret = <<"new">>
    /\ IdleButLimits

\* Limitkind::Rrsp.remaining(limits, rl, y) and
\* Limitkind::Tfsa.remaining(limits, rl, y)
Remaining(y) ==
    /\ lm_ret' = <<"remaining", y, remaining("Rrsp", lm_limits, lm_records, y),
                   remaining("Tfsa", lm_limits, lm_records, y)>>
    /\ UNCHANGED <<lm_limits, lm_log, lm_records>>
    /\ UNCHANGED nonLimitVars

RemainingNext == \E y \in {2014, 2015, 2016} : Remaining(y)

SpecRemaining == RemainingInit /\ [][RemainingNext]_vars

\* the positions of rl whose record satisfies P
Positions(rl, P(_)) == {i \in 1..Len(rl) : P(rl[i])}

\* C17: remaining is inception_to_year(year) minus the sum of the positive
\* amounts of the records of years <= year for Rrsp, and that value plus the
\* sum of the absolute values of the negative amounts of the records of
\* years < year for Tfsa; records of amount zero and records of later years
\* change neither, so Tfsa exceeds Rrsp by exactly the withdrawals of
\* earlier years
C17_Remaining ==
    lm_ret[1] = "remaining" =>
        LET y == lm_ret[2]
            room == Total([i \in 1..Len(lm_limits) |-> lm_limits[i][2]],
                          {i \in 1..Len(lm_limits) : lm_limits[i][1] <= y})
            paid == Total([i \in 1..Len(lm_records) |-> lm_records[i].amount],
                          Positions(lm_records,
                                    LAMBDA r : r.date \div 10000 <= y /\ r.amount > 0))
            drawn == Total([i \in 1..Len(lm_records) |-> 0 - lm_records[i].amount],
                           Positions(lm_records,
                                     LAMBDA r : r.date \div 10000 < y /\ r.amount < 0))
            counted == SelectSeq(lm_records,
                                 LAMBDA r : r.amount # 0 /\ r.date \div 10000 <= y)
        IN  /\ lm_ret[3] = room - paid
            /\ lm_ret[4] = room - paid + drawn
            /\ lm_ret[4] - lm_ret[3] = drawn
            /\ lm_ret[3] = remaining("Rrsp", lm_limits, counted, y)
            /\ lm_ret[4] = remaining("Tfsa", lm_limits, counted, y)

\* the remaining room of 2015 with a withdrawal in 2014, a contribution in
\* 2015 and a record of 2016: Tfsa exceeds Rrsp by the withdrawal
C17_Witness ==
    /\ lm_ret[1] = "remaining"
    /\ lm_ret[2] = 2015
    /\ lm_limits = <<<<2015, 5000>>, <<2016, 5000>>>>
    /\ Len(lm_records) = 3
    /\ lm_records[1].date = 20141231 /\ lm_records[1].amount = 0 - 1000
    /\ lm_records[2].date = 20150615 /\ lm_records[2].amount = 2000
    /\ lm_records[3].date = 20160101 /\ lm_records[3].amount = 2000
    /\ lm_ret[3] = 3000
    /\ lm_ret[4] = 4000

----------------------------------------------------------------------------
(* Aggregate as a state machine: add calls on a default Aggregate *)

AggKeys == {"a", "b", "c"}

AggValues == {0 - 3, 0, 10}

AggregateInit ==
    /\ ag_self = Aggregate_default
    /\ ag_log = <<>>
    /\ ag_other = None
    /\ ag_ret = <<"default">>
    /\ IdleButAggregate

\* agg.add(key, value)
Add(key, value) ==
    /\ Len(ag_log) < MaxAdds
    /\ ag_self' = add(ag_self, key, value)
    /\ ag_log' = Append(ag_log, <<key, value>>)
    /\ ag_other' = None
    /\ ag_ret' = <<"add", key, value>>
    /\ UNCHANGED nonAggVars

\* agg.get(key)
AggGet(key) ==
    /\ ag_ret' = <<"get", key, Aggregate_get(ag_self, key)>>
    /\ UNCHANGED <<ag_self, ag_log, ag_other>>
    /\ UNCHANGED nonAggVars

\* agg.sum()
AggSum ==
    /\ ag_ret' = <<"sum", Aggregate_sum(ag_self)>>
    /\ UNCHANGED <<ag_self, ag_log, ag_other>>
    /\ UNCHANGED nonAggVars

\* the pairs added so far, in the order p, collected into another Aggregate
\* and compared with ag_self
CollectReordered(p) ==
    /\ ag_other' = Some(Aggregate_from_iter([i \in 1..Len(ag_log) |-> ag_log[p[i]]]))
    /\ ag_ret' = <<"eq", Aggregate_eq(ag_self,
                        Aggregate_from_iter([i \in 1..Len(ag_log) |-> ag_log[p[i]]]))>>
    /\ UNCHANGED <<ag_self, ag_log>>
    /\ UNCHANGED nonAggVars

AggregateNext ==
    \/ \E key \in AggKeys, value \in AggValues : Add(key, value)
    \/ \E key \in AggKeys : AggGet(key)
    \/ AggSum
    \/ \E p \in Permutations(1..Len(ag_log)) : CollectReordered(p)

SpecAggregate == AggregateInit /\ [][AggregateNext]_vars

\* the positions of the log where a value was added under key k
AddedUnder(log, k) == {i \in 1..Len(log) : log[i][1] = k}

\* the sum of the values the log added under key k
SumUnder(log, k) == Total([i \in 1..Len(log) |-> log[i][2]], AddedUnder(log, k))

\* C19: after any sequence of add calls, get(k) is the sum of the values
\* added under k, None if k was never added and Some(0) if only zeros were;
\* sum() is the sum of all the values added and equals the sum of the
\* per-key values; an aggregate fed the same pairs in another order is equal
C19_AggregateSums ==
    /\ \A k \in AggKeys :
          Aggregate_get(ag_self, k) =
              IF AddedUnder(ag_log, k) = {} THEN None ELSE Some(SumUnder(ag_log, k))
    /\ ag_ret[1] = "get" =>
          ag_ret[3] = IF AddedUnder(ag_log, ag_ret[2]) = {} THEN None
                      ELSE Some(SumUnder(ag_log, ag_ret[2]))
    /\ Aggregate_sum(ag_self) =
          Total([i \in 1..Len(ag_log) |-> ag_log[i][2]], 1..Len(ag_log))
    /\ ag_ret[1] = "sum" =>
          ag_ret[2] = Total([k \in AggKeys |-> SumUnder(ag_log, k)], AggKeys)
    /\ ag_ret[1] = "eq" => ag_ret[2]
    /\ ag_other # None =>
          /\ ag_other[1].m = ag_self.m
          /\ ag_other[1].sum = ag_self.sum

\* the pairs of the test, two values under one key and a zero under another,
\* collected in the opposite order into an equal aggregate
C19_Witness ==
    /\ ag_log = <<<<"a", 10>>, <<"a", 0 - 3>>, <<"c", 0>>>>
    /\ Aggregate_get(ag_self, "a") = Some(7)
    /\ Aggregate_get(ag_self, "b") = None
    /\ Aggregate_get(ag_self, "c") = Some(0)
    /\ Aggregate_sum(ag_self) = 7
    /\ ag_other = Some(Aggregate_from_iter(<<<<"c", 0>>, <<"a", 0 - 3>>, <<"a", 10>>>>))
    /\ ag_ret = <<"eq", TRUE>>

-----------------------------------------------------------------------------
(* Charset *)

\* Charset::default(): only ASCII characters, no color
Charset_default ==
    [dash            |-> 45,
     tree_sideways_t |-> <<124, 45, 45, 32>>,
     tree_corner     |-> <<96, 45, 45, 32>>,
     tree_pipe_gap   |-> <<124, 32, 32, 32>>,
     tree_space      |-> <<32, 32, 32, 32>>,
     chart_axis      |-> 124,
     chart_bar_pos   |-> 43,
     chart_bar_neg   |-> 45,
     color           |-> FALSE]

\* Charset::with_color
with_color(self) == [self EXCEPT !.color = TRUE]

-----------------------------------------------------------------------------
(* Barchart.  Amounts and their sums are integers far from the ends of    *)
(* i64, as for Limitkind and Aggregate.                                    *)

max_date(a, b) == IF a >= b THEN a ELSE b

\* Recordlist::spanned_interval
spanned_interval(l) ==
    IF Len(l) = 0 THEN Interval_EMPTY
    ELSE [start |-> date(l[1]), end |-> date(l[Len(l)])]

\* Interval::intersection
intersection(self, other) ==
    [start |-> max_date(self.start, other.start),
     end   |-> min_date(self.end, other.end)]

\* what the iterator bounds.iter(part) yields from the state next on
RECURSIVE intervals_from(_, _, _)
intervals_from(bounds, part, next) ==
    IF next = None THEN <<>>
    ELSE <<next[1]>> \o intervals_from(bounds, part, iter_advance(bounds, part, next[1]))

\* for interval in bounds.iter(part): the intervals in the order yielded
iter_collect(bounds, part) == intervals_from(bounds, part, iter(bounds, part))

\* Aggregate::is_empty
Aggregate_is_empty(self) == DOMAIN self.m = {}

\* Option::unwrap_or_default for Cents
unwrap_or_default(o) == IF o = None THEN 0 ELSE o[1]

\* agg.iter().map(|(_, v)| v.abs()).max().unwrap_or_default()
max_abs(agg) ==
    LET vals == {IF agg.m[k] < 0 THEN 0 - agg.m[k] ELSE agg.m[k] : k \in DOMAIN agg.m}
    IN  IF vals = {} THEN 0 ELSE CHOOSE v \in vals : \A w \in vals : w <= v

\* the inner loop of to_barchart, from record k of the slice on; acc holds
\* pos and neg
RECURSIVE add_slice(_, _, _, _)
add_slice(slice, k, start, acc) ==
    IF k >= Len(slice) THEN acc
    ELSE LET a == amount(slice[k + 1])
         IN  add_slice(slice, k + 1, start,
                       IF a > 0 THEN [acc EXCEPT !.pos = add(@, start, a)]
                       ELSE IF a < 0 THEN [acc EXCEPT !.neg = add(@, start, a)]
                       ELSE acc)

\* the outer loop of to_barchart, from interval i on
RECURSIVE add_intervals(_, _, _, _)
add_intervals(rl, intervals, i, acc) ==
    IF i >= Len(intervals) THEN acc
    ELSE add_intervals(rl, intervals, i + 1,
                       add_slice(slice_spanning_interval(rl, intervals[i + 1]), 0,
                                 intervals[i + 1].start, acc))

MIN_TERM_WIDTH == 60
BOUNDING_SPACES_COUNT == 2

\* to_barchart leaving no column for the vertical divider
to_barchart_without_divider(self) ==
    LET bounds == intersection(spanned_interval(self.rl), self.bounds)
        acc    == add_intervals(self.rl, iter_collect(bounds, self.unit), 0,
                                [pos |-> Aggregate_default, neg |-> Aggregate_default])
        label_charlen == CASE self.unit = "Year"  -> 4
                           [] self.unit = "Month" -> 8
                           [] self.unit = "Day"   -> 10
        max_abs_val == IF max_abs(acc.pos) >= max_abs(acc.neg)
                       THEN max_abs(acc.pos) ELSE max_abs(acc.neg)
    IN  [charset       |-> self.charset,
         bounds        |-> bounds,
         unit          |-> self.unit,
         pos           |-> acc.pos,
         neg           |-> acc.neg,
         label_charlen |-> label_charlen,
         max_abs_val   |-> max_abs_val,
         max_barlen    |-> (IF self.term_width >= MIN_TERM_WIDTH
                            THEN self.term_width ELSE MIN_TERM_WIDTH)
                           - label_charlen
                           - BOUNDING_SPACES_COUNT
                           - charlen(I64(0 - max_abs_val), "release")[2]]

\* barchart::Config::to_barchart
to_barchart(self) ==
    LET bounds == intersection(spanned_interval(self.rl), self.bounds)
        acc    == add_intervals(self.rl, iter_collect(bounds, self.unit), 0,
                                [pos |-> Aggregate_default, neg |-> Aggregate_default])
        label_charlen == CASE self.unit = "Year"  -> 4
                           [] self.unit = "Month" -> 8
                           [] self.unit = "Day"   -> 10
        max_abs_val == IF max_abs(acc.pos) >= max_abs(acc.neg)
                       THEN max_abs(acc.pos) ELSE max_abs(acc.neg)
    IN  [charset       |-> self.charset,
         bounds        |-> bounds,
         unit          |-> self.unit,
         pos           |-> acc.pos,
         neg           |-> acc.neg,
         label_charlen |-> label_charlen,
         max_abs_val   |-> max_abs_val,
         max_barlen    |-> (IF self.term_width >= MIN_TERM_WIDTH
                            THEN self.term_width ELSE MIN_TERM_WIDTH)
                           - label_charlen
                           - BOUNDING_SPACES_COUNT
                           - 1
                           - charlen(I64(0 - max_abs_val), "release")[2]]

\* n in decimal, zero-padded to w digits
RECURSIVE padded(_, _)
padded(n, w) == IF w = 0 THEN <<>> ELSE padded(n \div 10, w - 1) \o <<48 + (n % 10)>>

\* [month repr:short]
month_short ==
    << <<74, 97, 110>>, <<70, 101, 98>>, <<77, 97, 114>>, <<65, 112, 114>>,
       <<77, 97, 121>>, <<74, 117, 110>>, <<74, 117, 108>>, <<65, 117, 103>>,
       <<83, 101, 112>>, <<79, 99, 116>>, <<78, 111, 118>>, <<68, 101, 99>> >>

\* Barchart::label
label(self, dt) ==
    CASE self.unit = "Year"  -> padded(year(dt), 4)
      [] self.unit = "Month" -> padded(year(dt), 4) \o <<32>> \o month_short[month(dt)]
      [] self.unit = "Day"   -> padded(year(dt), 4) \o <<45>> \o padded(month(dt), 2)
                                \o <<45>> \o padded(day(dt), 2)

\* Barchart::barlen.  The f64 quotient and product are taken exactly and
\* rounded half away from zero as f64::round does; 0.0 / 0.0 is NaN, which
\* the cast to usize turns into 0.
barlen(self, val) ==
    LET a == IF val < 0 THEN 0 - val ELSE val
        x == IF self.max_abs_val = 0 THEN 0
             ELSE (2 * a * self.max_barlen + self.max_abs_val) \div (2 * self.max_abs_val)
    IN  IF self.max_barlen <= x THEN self.max_barlen ELSE x

\* char.to_string().repeat(n)
repeat(c, n) == [k \in 1..n |-> c]

\* colored::Colorize::green / red followed by to_string: the escape codes
\* are written only when the crate's environment asks for color
colorized(str, code, colorize) ==
    IF colorize THEN <<27, 91, 51, code, 109>> \o str \o <<27, 91, 48, 109>> ELSE str

\* the bars of one value, the space after them, and writeln!(w, "{}", val)
draw_value(self, bar, code, val, colorize) ==
    LET n == barlen(self, val)
    IN  (IF n > 0
         THEN (IF self.charset.color THEN colorized(repeat(bar, n), code, colorize)
                                     ELSE repeat(bar, n)) \o <<32>>
         ELSE <<>>)
        \o to_string(I64(val), "release")[2] \o <<10>>

\* Barchart::draw: what it writes for the subinterval starting on dt
draw(self, dt, colorize) ==
    IF Aggregate_is_empty(self.pos) /\ Aggregate_is_empty(self.neg) THEN <<>>
    ELSE LET head == label(self, dt) \o <<32, 124>>
             upper == draw_value(self, self.charset.chart_bar_pos, 50,
                                 unwrap_or_default(Aggregate_get(self.pos, dt)), colorize)
             lower == draw_value(self, self.charset.chart_bar_neg, 49,
                                 unwrap_or_default(Aggregate_get(self.neg, dt)), colorize)
         IN  IF ~Aggregate_is_empty(self.pos)
             THEN head \o upper
                  \o (IF Aggregate_is_empty(self.neg) THEN <<>>
                      ELSE repeat(32, self.label_charlen) \o <<32, 124>> \o lower)
             ELSE head \o lower

\* impl Display for Barchart, over the subintervals from position i on
RECURSIVE Barchart_fmt_from(_, _, _, _)
Barchart_fmt_from(self, intervals, i, colorize) ==
    IF i >= Len(intervals) THEN <<>>
    ELSE draw(self, intervals[i + 1].start, colorize)
         \o Barchart_fmt_from(self, intervals, i + 1, colorize)

\* Barchart::to_string
Barchart_to_string(self, colorize) ==
    Barchart_fmt_from(self, iter_collect(self.bounds, self.unit), 0, colorize)

-----------------------------------------------------------------------------
(* Output.  An Output is <<variant, what it holds>>.  TreeForView is       *)
(* rendered here for the empty Recordlist, where no Tree is built.         *)

\* str::ends_with(char)
ends_with(str, c) == Len(str) > 0 /\ str[Len(str)] = c

\* the sentinel in lower case
NoTransactionsLower ==
    <<110, 111, 32, 116, 114, 97, 110, 115, 97, 99, 116, 105, 111, 110, 115, 46>>

\* "No transactions."
NoTransactions ==
    <<78, 111, 32, 116, 114, 97, 110, 115, 97, 99, 116, 105, 111, 110, 115, 46>>

\* impl Display for Output, through ToString
Output_to_string(output, colorize) ==
    CASE output[1] = "Str" ->
            IF ends_with(output[2], 10) THEN output[2] ELSE output[2] \o <<10>>
      [] output[1] = "TreeForView" /\ Len(output[2].rl) = 0 ->
            NoTransactions \o <<10>>
      [] output[1] = "Barchart" ->
            IF Len(output[2].rl) = 0 THEN NoTransactions \o <<10>>
            ELSE Barchart_to_string(to_barchart(output[2]), colorize)

-----------------------------------------------------------------------------
(* The Output state machine: an Output is built and rendered *)

\* the strings an Output::Str holds: letters and newlines
OutStrings == UNION {[1..n -> {97, 10}] : n \in 0..MaxStr}

\* records with positive, negative and zero amounts
ChartAmounts == {0 - 500, 0, 1500}
\* dates either side of the end of a year, a month apart at most
ChartDates == {20151230, 20160101, 20160131}
ChartRecord ==
    [date : ChartDates, category : Categories, amount : ChartAmounts, note : Notes]

\* the Recordlists of up to MaxBars records
ChartLists ==
    {from_vec(batch) : batch \in UNION {[1..n -> ChartRecord] : n \in 0..MaxBars}}

\* bounds around every record, around some, around none, and empty bounds
ChartBounds ==
    {[start |-> Date_MIN, end |-> Date_MAX],
     [start |-> 20160101, end |-> 20160131],
     [start |-> 20160102, end |-> 20160130],
     [start |-> 20160301, end |-> 20151201]}

TermWidths == {0, 80}

BarchartConfigs ==
    [charset    : {Charset_default, with_color(Charset_default)},
     bounds     : ChartBounds,
     unit       : Datepart,
     term_width : TermWidths,
     rl         : ChartLists]

\* a leaf_string_postprocessor: the closure of the tests, which returns the
\* empty string, or the closure of Rm::run with what it captures and with
\* whether the colored crate emits escape codes where it runs
dummy_lspp ==
    [kind |-> "dummy", date |-> Date_MIN, iid0 |-> 0, confirm |-> FALSE,
     colorize |-> FALSE]
rm_lspp(dt, iid0, confirm, colorize) ==
    [kind |-> "rm", date |-> dt, iid0 |-> iid0, confirm |-> confirm,
     colorize |-> colorize]

\* forview::Config of the empty Recordlist, with every other field varied
EmptyViewConfigs ==
    [charset   : {Charset_default, with_color(Charset_default)},
     first_iid : {0, 1, USIZE_MAX},
     rl        : {<<>>},
     leaf_string_postprocessor :
         {None, Some(dummy_lspp), Some(rm_lspp(20151230, 0, TRUE, TRUE))}]

OutputInit ==
    /\ ou_output \in ({<<"Str", str>> : str \in OutStrings}
                      \cup {<<"TreeForView", config>> : config \in EmptyViewConfigs}
                      \cup {<<"Barchart", config>> : config \in BarchartConfigs})
    /\ ou_colorize \in BOOLEAN
    /\ ou_text = None
    /\ IdleButOutput

\* output.to_string()
OutputToString ==
    /\ ou_text = None
    /\ ou_text' = Some(Output_to_string(ou_output, ou_colorize))
    /\ UNCHANGED <<ou_output, ou_colorize>>
    /\ UNCHANGED nonOutVars

OutputNext == OutputToString

SpecOutput == OutputInit /\ [][OutputNext]_vars

\* the records of the Output's Recordlist with an amount other than zero
\* whose date lies within the Output's bounds
Charted ==
    SelectSeq(ou_output[2].rl,
              LAMBDA r : /\ amount(r) # 0
                         /\ ou_output[2].bounds.start <= date(r)
                         /\ date(r) <= ou_output[2].bounds.end)

\* C20: Output::to_string() ends with a terminating newline for every Output
\* variant and every Recordlist, bounds and configuration the variant can
\* hold.
C20_TerminatingNewline ==
    ou_text # None => ends_with(ou_text[1], 10)

\* the rest of C20: the rendering ends with a newline unless the Output is a
\* Barchart of a Recordlist that is not empty and has no record with an
\* amount other than zero within the bounds; then the rendering is empty
Aux_C20_UnlessNothingCharted ==
    ou_text # None =>
        IF ou_output[1] = "Barchart" /\ Len(ou_output[2].rl) > 0 /\ Len(Charted) = 0
        THEN Len(ou_text[1]) = 0
        ELSE ends_with(ou_text[1], 10)

\* a Barchart of records of amount zero has been rendered
Aux_C20_Reached ==
    /\ ou_output[1] = "Barchart"
    /\ Len(ou_output[2].rl) = 2
    /\ \A k \in 1..2 : amount(ou_output[2].rl[k]) = 0
    /\ ou_text = Some(<<>>)

\* C21: rendering Output::TreeForView or Output::Barchart whose Recordlist is
\* empty yields exactly "No transactions." followed by a newline, whatever
\* the other configuration fields are.
C21_NoTransactions ==
    (/\ ou_text # None
     /\ ou_output[1] \in {"TreeForView", "Barchart"}
     /\ Len(ou_output[2].rl) = 0)
    => ou_text[1] = <<78, 111, 32, 116, 114, 97, 110, 115, 97, 99, 116, 105, 111,
                      110, 115, 46, 10>>

\* a Barchart of the empty Recordlist, with color, a term_width below the
\* minimum and empty bounds, has been rendered
C21_Witness ==
    /\ ou_output[1] = "Barchart"
    /\ Len(ou_output[2].rl) = 0
    /\ ou_output[2].charset.color
    /\ ou_output[2].term_width = 0
    /\ ou_output[2].bounds.start > ou_output[2].bounds.end
    /\ ou_text # None
    /\ Len(ou_text[1]) = 17

-----------------------------------------------------------------------------
(* Category *)

\* Category::SEP, "/"
SEP == <<47>>

\* Category::LEVEL0, "All"
LEVEL0 == <<65, 108, 108>>

\* str::starts_with(pat)
starts_with(str, pat) ==
    Len(str) >= Len(pat) /\ SubSeq(str, 1, Len(pat)) = pat

\* str::ends_with(pat) for a string pattern
ends_with_str(str, pat) ==
    Len(str) >= Len(pat) /\ SubSeq(str, Len(str) - Len(pat) + 1, Len(str)) = pat

\* str::contains(pat)
contains(str, pat) ==
    \E i \in 0..(Len(str) - Len(pat)) : SubSeq(str, i + 1, i + Len(pat)) = pat

\* category::ParseError::check without the test of the last character
check_start_only(str) ==
    IF Len(str) = 0 THEN <<"Err", "Empty">>
    ELSE IF starts_with(str, SEP) THEN <<"Err", "TerminalSeparator">>
    ELSE IF contains(str, SEP \o SEP) THEN <<"Err", "ConsecutiveSeparators">>
    ELSE <<"Ok", <<>>>>

\* category::ParseError::check
check(str) ==
    IF Len(str) = 0 THEN <<"Err", "Empty">>
    ELSE IF starts_with(str, SEP) \/ ends_with_str(str, SEP)
         THEN <<"Err", "TerminalSeparator">>
    ELSE IF contains(str, SEP \o SEP) THEN <<"Err", "ConsecutiveSeparators">>
    ELSE <<"Ok", <<>>>>

\* impl FromStr for Category
Category_from_str(str) ==
    IF check(str)[1] = "Err" THEN check(str) ELSE <<"Ok", str>>

\* str::match_indices(SEP).map(|(i, _)| i): the byte offsets of the matches
\* found from offset i on, each search resuming after the match before
RECURSIVE match_indices_from(_, _)
match_indices_from(str, i) ==
    IF i + Len(SEP) > Len(str) THEN <<>>
    ELSE IF SubSeq(str, i + 1, i + Len(SEP)) = SEP
         THEN <<i>> \o match_indices_from(str, i + Len(SEP))
         ELSE match_indices_from(str, i + 1)

\* Iterator::nth
nth(v, k) == IF k < Len(v) THEN Some(v[k + 1]) ELSE None

\* Category::level taking the match after the one asked for
level_from_zero(self, n) ==
    IF n = 0 THEN LEVEL0
    ELSE LET i == nth(match_indices_from(self, 0), n)
         IN  IF i # None THEN SubSeq(self, 1, i[1]) ELSE self

\* Category::level
level(self, n) ==
    IF n = 0 THEN LEVEL0
    ELSE LET i == nth(match_indices_from(self, 0), n - 1)
         IN  IF i # None THEN SubSeq(self, 1, i[1]) ELSE self

-----------------------------------------------------------------------------
(* The Category state machine: a string is parsed, and the levels of the  *)
(* Category it yields are taken                                            *)

\* strings of letters and separators
CatTexts == UNION {[1..n -> {97, 98, 47}] : n \in 0..MaxCat}

\* the levels asked for: the first few, and the largest usize
Levels == 0..MaxLevel \cup {USIZE_MAX}

CategoryInit ==
    /\ ca_text \in CatTexts
    /\ ca_parsed = Unset
    /\ ca_ret = None
    /\ IdleButCategory

\* ca_text.parse::<Category>()
CategoryFromStr ==
    /\ ca_parsed = Unset
    /\ ca_parsed' = Category_from_str(ca_text)
    /\ UNCHANGED <<ca_text, ca_ret>>
    /\ UNCHANGED nonCatVars

\* category.level(n)
Level(n) ==
    /\ ca_parsed # Unset
    /\ ca_parsed[1] = "Ok"
    /\ ca_ret' = Some(<<n, level(ca_parsed[2], n)>>)
    /\ UNCHANGED <<ca_text, ca_parsed>>
    /\ UNCHANGED nonCatVars

CategoryNext ==
    \/ CategoryFromStr
    \/ \E n \in Levels : Level(n)

SpecCategory == CategoryInit /\ [][CategoryNext]_vars

\* the segments a string falls into at its separators, an empty string
\* being one empty segment
RECURSIVE Segments(_)
Segments(str) ==
    IF \A k \in 1..Len(str) : str[k] # 47 THEN <<str>>
    ELSE LET k == CHOOSE j \in 1..Len(str) :
                      str[j] = 47 /\ \A h \in 1..(j - 1) : str[h] # 47
         IN  <<SubSeq(str, 1, k - 1)>> \o Segments(SubSeq(str, k + 1, Len(str)))

\* the first n of the segments, joined by '/'
RECURSIVE Joined(_, _)
Joined(segs, n) ==
    IF n = 0 THEN <<>>
    ELSE IF n = 1 THEN segs[1]
    ELSE Joined(segs, n - 1) \o <<47>> \o segs[n]

\* the rule a string violates, by name
Violates(str, rule) ==
    CASE rule = "Empty" -> Len(str) = 0
      [] rule = "TerminalSeparator" ->
            Len(str) > 0 /\ (str[1] = 47 \/ str[Len(str)] = 47)
      [] rule = "ConsecutiveSeparators" ->
            \E k \in 1..(Len(str) - 1) : str[k] = 47 /\ str[k + 1] = 47

CategoryRules == {"Empty", "TerminalSeparator", "ConsecutiveSeparators"}

\* C24: Category::from_str accepts a string exactly when it is non-empty,
\* does not start or end with '/' and contains no two consecutive '/'; it
\* rejects every other string with the error naming a rule the string
\* violates, so every Category has only non-empty segments.
C24_FromStr ==
    ca_parsed # Unset =>
        IF \E rule \in CategoryRules : Violates(ca_text, rule)
        THEN /\ ca_parsed[1] = "Err"
             /\ ca_parsed[2] \in CategoryRules
             /\ Violates(ca_text, ca_parsed[2])
        ELSE /\ ca_parsed = <<"Ok", ca_text>>
             /\ \A k \in 1..Len(Segments(ca_text)) : Len(Segments(ca_text)[k]) > 0

\* "ab/" has been rejected for its last character
C24_Witness ==
    /\ ca_text = <<97, 98, 47>>
    /\ ca_parsed = <<"Err", "TerminalSeparator">>

\* "a/b" has been accepted
Aux_C24_Accepted ==
    /\ ca_text = <<97, 47, 98>>
    /\ ca_parsed = <<"Ok", <<97, 47, 98>>>>

\* C25: level(0) is "All" for every category; for n >= 1, level(n) is the
\* first n segments joined by '/' when the category has at least n
\* separators and the whole category otherwise, so that level(n) is a prefix
\* of level(n + 1).
C25_Level ==
    ca_ret # None =>
        LET self == ca_parsed[2]
            n    == ca_ret[1][1]
            segs == Segments(self)
        IN  /\ n = 0 => ca_ret[1][2] = <<65, 108, 108>>
            /\ n >= 1 =>
                /\ ca_ret[1][2] = IF Len(segs) - 1 >= n THEN Joined(segs, n) ELSE self
                /\ n < USIZE_MAX => starts_with(level(self, n + 1), ca_ret[1][2])

\* level(2) of "a/b/a" has been taken
C25_Witness ==
    /\ ca_parsed = <<"Ok", <<97, 47, 98, 47, 97>>>>
    /\ ca_ret = Some(<<2, <<97, 47, 98>>>>)

-----------------------------------------------------------------------------
(* Tree.  A Node is its data and the sequence of its children; a Tree is   *)
(* its charset and its root.                                               *)

\* Node::new
Node_new(data) == [data |-> data, children |-> <<>>]

\* Node::default()
Node_default == [data |-> <<>>, children |-> <<>>]

\* write_node of impl Display for Tree, and its loop over the children of a
\* node from child i on
RECURSIVE write_node(_, _, _, _)
RECURSIVE write_children(_, _, _, _)
write_node(node, preprefix, is_last_child_of_parent, charset) ==
    LET prefix_tail       == IF is_last_child_of_parent
                             THEN charset.tree_corner ELSE charset.tree_sideways_t
        child_prefix_tail == IF is_last_child_of_parent
                             THEN charset.tree_space ELSE charset.tree_pipe_gap
    IN  preprefix \o prefix_tail \o node.data \o <<10>>
        \o write_children(node.children, 0, preprefix \o child_prefix_tail, charset)

write_children(children, i, preprefix, charset) ==
    IF i >= Len(children) THEN <<>>
    ELSE write_node(children[i + 1], preprefix, i >= Len(children) - 1, charset)
         \o write_children(children, i + 1, preprefix, charset)

\* impl Display for Tree: the nodes of the first level from node i on
RECURSIVE Tree_fmt_from(_, _)
Tree_fmt_from(self, i) ==
    IF i >= Len(self.root.children) THEN <<>>
    ELSE LET lv1 == self.root.children[i + 1]
         IN  lv1.data \o <<10>>
             \o write_children(lv1.children, 0, <<>>, self.charset)
             \o Tree_fmt_from(self, i + 1)

\* Tree::to_string
Tree_to_string(self) == Tree_fmt_from(self, 0)

-----------------------------------------------------------------------------
(* tree::forsum.  Amounts and their sums are integers far from the ends of *)
(* i64; a label is the string of a category level.                         *)

MIN_DASHES_COUNT == 2

\* forsum::Config::IN, OUT, NET, TOTAL
forsum_IN == <<73, 110>>
forsum_OUT == <<79, 117, 116>>
forsum_NET == <<78, 101, 116>>
forsum_TOTAL == <<84, 111, 116, 97, 108>>

\* a < b for str: the order of the bytes
str_less(a, b) ==
    \E i \in 1..Len(b) :
        /\ i <= Len(a) + 1
        /\ SubSeq(a, 1, i - 1) = SubSeq(b, 1, i - 1)
        /\ (i = Len(a) + 1 \/ a[i] < b[i])

\* Ord::cmp for str
str_cmp(a, b) ==
    IF a = b THEN "Equal" ELSE IF str_less(a, b) THEN "Less" ELSE "Greater"

\* Ord::cmp for Cents
cents_cmp(a, b) ==
    IF a = b THEN "Equal" ELSE IF a < b THEN "Less" ELSE "Greater"

\* Cents::abs of an amount far from i64::MIN
cents_abs(a) == IF a < 0 THEN 0 - a ELSE a

\* the comparator of sort_agg ordering by ascending absolute amount
sort_agg_cmp_ascending(p1, p2) ==
    IF p1[2] = p2[2] THEN str_cmp(p1[1], p2[1])
    ELSE cents_cmp(cents_abs(p1[2]), cents_abs(p2[2]))

\* the comparator of sort_agg: (s1, a1) against (s2, a2)
sort_agg_cmp(p1, p2) ==
    IF p1[2] = p2[2] THEN str_cmp(p1[1], p2[1])
    ELSE cents_cmp(cents_abs(p2[2]), cents_abs(p1[2]))

\* sort_unstable_by of a set of pairs: an order in which no pair is Greater
\* than a later one.  The keys of an Aggregate differ, so the comparator
\* orders the pairs of one sign totally and the order is the only one.
RECURSIVE sort_unstable(_)
sort_unstable(pairs) ==
    IF pairs = {} THEN <<>>
    ELSE LET first == CHOOSE p \in pairs :
                          \A q \in pairs : sort_agg_cmp(p, q) # "Greater"
         IN  <<first>> \o sort_unstable(pairs \ {first})

\* sort_agg: agg.iter().collect::<Vec<_>>(), sorted
sort_agg(agg) == sort_unstable({<<k, agg.m[k]>> : k \in DOMAIN agg.m})

\* the loop of forsum::Config::to_tree over the records from record i on;
\* acc holds pos and neg
RECURSIVE forsum_add_from(_, _, _)
forsum_add_from(self, i, acc) ==
    IF i >= Len(self.rl) THEN acc
    ELSE LET r == self.rl[i + 1]
         IN  forsum_add_from(self, i + 1,
                 IF amount(r) > 0
                 THEN [acc EXCEPT !.pos = add(@, level(r.category, self.level), amount(r))]
                 ELSE IF amount(r) < 0
                 THEN [acc EXCEPT !.neg = add(@, level(r.category, self.level), amount(r))]
                 ELSE acc)

\* char_count of forsum::Config::to_tree
forsum_char_count(pair) ==
    Len(pair[1])
    + BOUNDING_SPACES_COUNT
    + MIN_DASHES_COUNT
    + charlen_for_alignment(I64(pair[2]), "release")[2]

\* Iterator::max().unwrap_or_default() of usize values
max_or_default(vals) ==
    IF vals = {} THEN 0 ELSE CHOOSE v \in vals : \A w \in vals : w <= v

\* dash_count of forsum::leaf_data: below zero when the usize subtraction
\* underflows
forsum_dash_count(lbl, amt, alignment_charlen) ==
    alignment_charlen
    - Len(lbl)
    - BOUNDING_SPACES_COUNT
    - charlen_for_alignment(I64(amt), "release")[2]

\* forsum::Config::leaf_data
forsum_leaf_data(self, lbl, amt, alignment_charlen) ==
    LET dash_count == forsum_dash_count(lbl, amt, alignment_charlen)
    IN  IF dash_count < 0 THEN Panicked
        ELSE lbl \o <<32>> \o repeat(self.charset.dash, dash_count) \o <<32>>
             \o to_string(I64(amt), "release")[2]

\* forsum::Config::add_vec_to_tree
add_vec_to_tree(self, root, v, name, alignment_charlen) ==
    IF Len(v) = 0 THEN root
    ELSE [root EXCEPT !.children =
            Append(@, [data     |-> name,
                       children |-> [k \in 1..Len(v) |->
                           Node_new(forsum_leaf_data(self, v[k][1], v[k][2],
                                                     alignment_charlen))]])]

\* forsum::Config::to_tree, with the vectors it sorts and the width it
\* aligns to
forsum_to_tree(self) ==
    LET acc  == forsum_add_from(self, 0, [pos |-> Aggregate_default,
                                          neg |-> Aggregate_default])
        posv == sort_agg(acc.pos)
        negv == sort_agg(acc.neg)
        totv == <<<<forsum_IN, Aggregate_sum(acc.pos)>>,
                  <<forsum_OUT, Aggregate_sum(acc.neg)>>,
                  <<forsum_TOTAL, Aggregate_sum(acc.pos) + Aggregate_sum(acc.neg)>>>>
        rows == posv \o negv \o totv
        alignment_charlen ==
            max_or_default({forsum_char_count(rows[k]) : k \in 1..Len(rows)})
        root1 == add_vec_to_tree(self, Node_default, posv, forsum_IN, alignment_charlen)
        root2 == add_vec_to_tree(self, root1, negv, forsum_OUT, alignment_charlen)
        root3 == add_vec_to_tree(self, root2, totv, forsum_NET, alignment_charlen)
    IN  [posv |-> posv, negv |-> negv, totv |-> totv,
         alignment_charlen |-> alignment_charlen,
         tree |-> [charset |-> self.charset, root |-> root3]]

-----------------------------------------------------------------------------
(* tree::forview.  iid0 + first_iid is a usize sum: it panics in a debug   *)
(* build and wraps in a release build when it passes usize::MAX.           *)

\* the names of the days of a month: strs of make_day_node
day_strs ==
    [d \in 1..31 |->
        DigitsOf(d) \o (IF d \in {1, 21, 31} THEN <<115, 116>>
                        ELSE IF d \in {2, 22} THEN <<110, 100>>
                        ELSE IF d \in {3, 23} THEN <<114, 100>>
                        ELSE <<116, 104>>)]

\* char_count of get_alignment_charlen without the two dashes every row keeps
forview_char_count_no_dashes(self, pair) ==
    count_digits(MagOf(wrapping_add(pair[1], self.first_iid)))
    + BOUNDING_SPACES_COUNT
    + charlen_for_alignment(I64(amount(pair[2])), "release")[2]

\* char_count of get_alignment_charlen, for the pair (iid0, r)
forview_char_count(self, pair) ==
    count_digits(MagOf(wrapping_add(pair[1], self.first_iid)))
    + BOUNDING_SPACES_COUNT
    + MIN_DASHES_COUNT
    + charlen_for_alignment(I64(amount(pair[2])), "release")[2]

\* forview::Config::get_alignment_charlen
get_alignment_charlen(self) ==
    LET pairs == iter_with_iid(self.rl)
    IN  max_or_default({forview_char_count(self, pairs[k]) : k \in 1..Len(pairs)})

\* the closure behind leaf_string_postprocessor, called
apply_lspp(lspp, config, r, iid0_arg, leaf_string) ==
    IF lspp.kind = "dummy" THEN <<>>
    ELSE IF date(r) = lspp.date /\ iid0_arg = lspp.iid0
    THEN LET removed == <<32, 60, 45, 32, 91, 82, 69, 77, 79, 86, 69, 68, 93>>
             would   == <<32, 60, 45, 32, 91, 87, 79, 85, 76, 68, 32, 66, 69, 32,
                          82, 69, 77, 79, 86, 69, 68, 93>>
             msg     == IF lspp.confirm
                        THEN (IF config.charset.color
                              THEN colorized(removed, 49, lspp.colorize) ELSE removed)
                        ELSE (IF config.charset.color
                              THEN colorized(would, 51, lspp.colorize) ELSE would)
         IN  leaf_string \o msg
    ELSE leaf_string

\* forview::Config::leaf_data, with its label, its dash_count (below zero
\* when the usize subtraction underflows) and the string handed to the
\* postprocessor
forview_leaf(self, r, iid0, alignment_charlen) ==
    LET iid        == wrapping_add(iid0, self.first_iid)
        dash_count == alignment_charlen
                      - count_digits(MagOf(iid))
                      - BOUNDING_SPACES_COUNT
                      - charlen_for_alignment(I64(amount(r)), "release")[2]
        str        == DigitsOf(iid) \o <<32>>
                      \o repeat(self.charset.dash, dash_count) \o <<32>>
                      \o to_string(I64(amount(r)), "release")[2]
                      \o (IF amount(r) >= 0 THEN <<32>> ELSE <<>>)
                      \o <<32>> \o r.category
                      \o (IF Len(r.note) > 0 THEN <<58, 32>> \o r.note ELSE <<>>)
    IN  [label      |-> DigitsOf(iid),
         amount     |-> amount(r),
         dash_count |-> dash_count,
         text       |-> str,
         data       |-> IF dash_count < 0 THEN Panicked
                        ELSE IF self.leaf_string_postprocessor # None
                        THEN apply_lspp(self.leaf_string_postprocessor[1], self, r, iid0, str)
                        ELSE str]

\* forview::Config::leaf_data
forview_leaf_data(self, r, iid0, alignment_charlen) ==
    forview_leaf(self, r, iid0, alignment_charlen).data

\* last_child_exists_and_has_expected_data
last_child_exists_and_has_expected_data(node, expected_data) ==
    IF Len(node.children) > 0
    THEN node.children[Len(node.children)].data = expected_data
    ELSE FALSE

\* the push of make_year_node, make_month_node and make_day_node: a child
\* for the string unless the last child holds it
push_unless_last(node, str) ==
    IF ~last_child_exists_and_has_expected_data(node, str)
    THEN [node EXCEPT !.children = Append(@, Node_new(str))]
    ELSE node

\* forview::Config::make_leaf_node
make_leaf_node(self, day_node, r, iid0, alignment_charlen) ==
    [day_node EXCEPT !.children =
        Append(@, Node_new(forview_leaf_data(self, r, iid0, alignment_charlen)))]

\* forview::Config::make_day_node
make_day_node(self, month_node, r, iid0, alignment_charlen) ==
    LET pushed == push_unless_last(month_node, day_strs[day(date(r))])
    IN  [pushed EXCEPT !.children[Len(pushed.children)] =
            make_leaf_node(self, @, r, iid0, alignment_charlen)]

\* forview::Config::make_month_node
make_month_node(self, year_node, r, iid0, alignment_charlen) ==
    LET pushed == push_unless_last(year_node, month_short[month(date(r))])
    IN  [pushed EXCEPT !.children[Len(pushed.children)] =
            make_day_node(self, @, r, iid0, alignment_charlen)]

\* forview::Config::make_year_node
make_year_node(self, root, r, iid0, alignment_charlen) ==
    LET buf    == <<(year(date(r)) \div 1000) + 48,
                    ((year(date(r)) \div 100) % 10) + 48,
                    ((year(date(r)) \div 10) % 10) + 48,
                    (year(date(r)) % 10) + 48>>
        pushed == push_unless_last(root, buf)
    IN  [pushed EXCEPT !.children[Len(pushed.children)] =
            make_month_node(self, @, r, iid0, alignment_charlen)]

\* the loop of forview::Config::to_tree from pair i on
RECURSIVE forview_loop(_, _, _, _, _)
forview_loop(self, pairs, i, root, alignment_charlen) ==
    IF i >= Len(pairs) THEN root
    ELSE forview_loop(self, pairs, i + 1,
                      make_year_node(self, root, pairs[i + 1][2], pairs[i + 1][1],
                                     alignment_charlen),
                      alignment_charlen)

\* forview::Config::to_tree under build profile b, with the width it aligns
\* to and, for each record, what leaf_data computed
forview_to_tree(self, b) ==
    LET pairs == iter_with_iid(self.rl)
        alignment_charlen == get_alignment_charlen(self)
    IN  IF b = "debug" /\ \E k \in 1..Len(pairs) : pairs[k][1] > USIZE_MAX - self.first_iid
        THEN Panicked
        ELSE Ok(
             [alignment_charlen |-> alignment_charlen,
              rows |-> [k \in 1..Len(pairs) |->
                           forview_leaf(self, pairs[k][2], pairs[k][1], alignment_charlen)],
              tree |-> [charset |-> self.charset,
                        root    |-> forview_loop(self, pairs, 0, Node_default,
                                                 alignment_charlen)]])

-----------------------------------------------------------------------------
(* Limitprinter *)

\* format!("{:0>4}", year)
format_year(yr) ==
    IF Len(DigitsOf(yr)) >= 4 THEN DigitsOf(yr)
    ELSE repeat(48, 4 - Len(DigitsOf(yr))) \o DigitsOf(yr)

\* char_count of limitprinter::Config::to_limitprinter
limitprinter_char_count(row) ==
    Len(row[1])
    + BOUNDING_SPACES_COUNT
    + MIN_DASHES_COUNT
    + charlen_for_alignment(I64(row[2]), "release")[2]

\* limitprinter::Config::to_limitprinter
to_limitprinter(self) ==
    LET entries == range_to_inclusive(self.limits, self.year)
        limits  == [k \in 1..Len(entries) |-> <<format_year(entries[k][1]), entries[k][2]>>]
        total   == sum([k \in 1..Len(limits) |-> limits[k][2]])
        rest    == remaining(self.kind, self.limits, self.rl, self.year)
        summary == <<<<(<<84, 111, 116, 97, 108>>), total>>,
                     <<(<<82, 101, 109, 97, 105, 110, 105, 110, 103>>), rest>>>>
        widest_limit   == max_or_default({limitprinter_char_count(limits[k]) :
                                             k \in 1..Len(limits)})
        widest_summary == max_or_default({limitprinter_char_count(summary[k]) :
                                             k \in 1..Len(summary)})
    IN  [charset |-> self.charset,
         limits  |-> limits,
         summary |-> summary,
         alignment_charlen |-> IF widest_limit >= widest_summary
                               THEN widest_limit ELSE widest_summary]

\* dash_count of Limitprinter::draw: below zero when the usize subtraction
\* underflows
limitprinter_dash_count(self, row) ==
    self.alignment_charlen
    - Len(row[1])
    - BOUNDING_SPACES_COUNT
    - charlen_for_alignment(I64(row[2]), "release")[2]

\* Limitprinter::draw: what it writes for a row
limitprinter_draw(self, row) ==
    IF limitprinter_dash_count(self, row) < 0 THEN Panicked
    ELSE row[1] \o <<32>>
         \o repeat(self.charset.dash, limitprinter_dash_count(self, row)) \o <<32>>
         \o to_string(I64(row[2]), "release")[2] \o <<10>>

\* try_for_each(|row| self.draw(f, row)) from row i on
RECURSIVE draw_rows_from(_, _, _)
draw_rows_from(self, rows, i) ==
    IF i >= Len(rows) THEN <<>>
    ELSE limitprinter_draw(self, rows[i + 1]) \o draw_rows_from(self, rows, i + 1)

\* impl Display for Limitprinter
Limitprinter_to_string(self) ==
    draw_rows_from(self, self.limits, 0)
    \o (IF Len(self.limits) > 0
        THEN repeat(61, self.alignment_charlen - 1) \o <<10>>
        ELSE <<>>)
    \o draw_rows_from(self, self.summary, 0)

-----------------------------------------------------------------------------
(* The report state machine: a Config is built into its Tree or            *)
(* Limitprinter, which is then rendered                                    *)

\* records of one date in three categories, two of them under one parent
SumCategories == {<<97>>, <<97, 47, 98>>, <<98>>}
SumAmounts == {0 - 500, 0, 500}
SumRecord ==
    [date : {20150330}, category : SumCategories, amount : SumAmounts, note : {<<>>}]

SumLevels == {0, 1, 2}

SumConfigs ==
    [charset : {Charset_default},
     level   : SumLevels,
     rl      : UNION {[1..n -> SumRecord] : n \in 0..MaxSum}]

\* records of a view: three dates of two years, a short and a long amount
ViewRecord ==
    [date : {20150330, 20150401, 20160229}, category : {<<97>>},
     amount : {0 - 500, 100000}, note : {<<>>, <<110>>}]

ViewConfigs ==
    [charset   : {Charset_default, with_color(Charset_default)},
     first_iid : {0, 9, USIZE_MAX},
     rl        : {from_vec(v) : v \in UNION {[1..n -> ViewRecord] : n \in 0..MaxView}},
     leaf_string_postprocessor :
         {None, Some(dummy_lspp), Some(rm_lspp(20150330, 0, TRUE, TRUE)),
          Some(rm_lspp(20150330, 1, FALSE, FALSE))}]

\* limits of up to two years, with years of three and of five digits
PrinterLimits ==
    {<<>>, <<<<2015, 3000>>>>, <<<<2015, 100000>>, <<2016, 3000>>>>,
     <<<<999, 3000>>, <<10000, 5000>>>>}

PrinterConfigs ==
    [charset : {Charset_default},
     year    : {2014, 2015, 10000},
     kind    : {"Rrsp", "Tfsa"},
     limits  : PrinterLimits,
     rl      : {from_vec(v) : v \in UNION {[1..n -> RoomRecord] : n \in 0..MaxRows}}]

ReportInit ==
    /\ rp_config \in {<<"forsum", config>> : config \in SumConfigs}
                     \cup {<<"forview", config>> : config \in ViewConfigs}
                     \cup {<<"limitprinter", config>> : config \in PrinterConfigs}
    /\ rp_build \in Builds
    /\ rp_built = None
    /\ rp_text = None
    /\ IdleButReport

\* config.to_tree()
ToTree ==
    /\ rp_built = None
    /\ rp_config[1] \in {"forsum", "forview"}
    /\ rp_built' = IF rp_config[1] = "forsum"
                   THEN Some(forsum_to_tree(rp_config[2]))
                   ELSE Some(forview_to_tree(rp_config[2], rp_build))
    /\ UNCHANGED <<rp_config, rp_build, rp_text>>
    /\ UNCHANGED nonReportVars

\* tree.to_string()
TreeToString ==
    /\ rp_built # None
    /\ rp_text = None
    /\ rp_config[1] \in {"forsum", "forview"}
    /\ rp_config[1] = "forview" => rp_built[1][1] = "Ok"
    /\ rp_text' = IF rp_config[1] = "forsum"
                  THEN Some(Tree_to_string(rp_built[1].tree))
                  ELSE Some(Tree_to_string(rp_built[1][2].tree))
    /\ UNCHANGED <<rp_config, rp_build, rp_built>>
    /\ UNCHANGED nonReportVars

\* config.to_limitprinter()
ToLimitprinter ==
    /\ rp_built = None
    /\ rp_config[1] = "limitprinter"
    /\ rp_built' = Some(to_limitprinter(rp_config[2]))
    /\ UNCHANGED <<rp_config, rp_build, rp_text>>
    /\ UNCHANGED nonReportVars

\* limitprinter.to_string()
LimitprinterToString ==
    /\ rp_built # None
    /\ rp_text = None
    /\ rp_config[1] = "limitprinter"
    /\ rp_text' = Some(Limitprinter_to_string(rp_built[1]))
    /\ UNCHANGED <<rp_config, rp_build, rp_built>>
    /\ UNCHANGED nonReportVars

ReportNext ==
    \/ ToTree
    \/ TreeToString
    \/ ToLimitprinter
    \/ LimitprinterToString

SpecReport == ReportInit /\ [][ReportNext]_vars

\* the positions of the records of the report with an amount on one side
\* of zero: above it for sign 1, below it for sign -1
SideOf(sign) ==
    {k \in 1..Len(rp_config[2].rl) : sign * amount(rp_config[2].rl[k]) > 0}

\* the label a record of the sum tree is grouped under
LabelOf(k) == level(rp_config[2].rl[k].category, rp_config[2].level)

\* the sum of the amounts at a set of positions
AmountOver(S) == Total([k \in S |-> amount(rp_config[2].rl[k])], S)

\* a vector of the sum tree holds one row for each label of a side, with
\* the sum of the side's amounts under that label
GroupsSide(v, sign) ==
    /\ {v[i][1] : i \in 1..Len(v)} = {LabelOf(k) : k \in SideOf(sign)}
    /\ Len(v) = Cardinality({LabelOf(k) : k \in SideOf(sign)})
    /\ \A i \in 1..Len(v) :
           v[i][2] = AmountOver({k \in SideOf(sign) : LabelOf(k) = v[i][1]})

\* label a comes before label b
LabelBefore(a, b) ==
    \/ Len(a) < Len(b) /\ a = SubSeq(b, 1, Len(a))
    \/ \E i \in 1..Len(a) :
           /\ i <= Len(b)
           /\ \A h \in 1..(i - 1) : a[h] = b[h]
           /\ a[i] < b[i]

\* rows by descending absolute amount and, for equal amounts, ascending label
RowsOrdered(v) ==
    \A i \in 1..Len(v), j \in 1..Len(v) :
        i < j =>
            \/ cents_abs(v[i][2]) > cents_abs(v[j][2])
            \/ v[i][2] = v[j][2] /\ LabelBefore(v[i][1], v[j][1])

\* the names of the sections of a tree with the number of rows of each
Sections(tree) ==
    [i \in 1..Len(tree.root.children) |->
        <<tree.root.children[i].data, Len(tree.root.children[i].children)>>]

\* C22: the sum tree groups every non-zero record under category.level(level)
\* into an In aggregate (positive amounts) and an Out aggregate (negative
\* amounts); within each section rows are ordered by descending absolute
\* amount and, for equal amounts, by ascending label; the In and Out
\* sections are omitted when their aggregate is empty, and the Net section is
\* always present with In = sum of positives, Out = sum of negatives and
\* Total = In + Out.
C22_SumTree ==
    (rp_built # None /\ rp_config[1] = "forsum") =>
        LET b == rp_built[1]
        IN  /\ GroupsSide(b.posv, 1)
            /\ GroupsSide(b.negv, 0 - 1)
            /\ RowsOrdered(b.posv)
            /\ RowsOrdered(b.negv)
            /\ b.totv = <<<<(<<73, 110>>), AmountOver(SideOf(1))>>,
                          <<(<<79, 117, 116>>), AmountOver(SideOf(0 - 1))>>,
                          <<(<<84, 111, 116, 97, 108>>),
                            AmountOver(SideOf(1)) + AmountOver(SideOf(0 - 1))>>>>
            /\ Sections(b.tree) =
                   (IF SideOf(1) = {} THEN <<>> ELSE <<<<(<<73, 110>>), Len(b.posv)>>>>)
                   \o (IF SideOf(0 - 1) = {} THEN <<>>
                       ELSE <<<<(<<79, 117, 116>>), Len(b.negv)>>>>)
                   \o <<<<(<<78, 101, 116>>), 3>>>>

\* a sum tree at level 1 whose In section holds "a" with 10.00, from two
\* records, before "b" with 5.00, and which has no Out section
C22_Witness ==
    /\ rp_config[1] = "forsum"
    /\ rp_config[2].level = 1
    /\ rp_built # None
    /\ rp_built[1].posv = <<<<(<<97>>), 1000>>, <<(<<98>>), 500>>>>
    /\ rp_built[1].negv = <<>>
    /\ Len(rp_built[1].tree.root.children) = 2

-----------------------------------------------------------------------------
(* The rows of the dash-aligned reports *)

\* the leaves under a node, from first to last
RECURSIVE LeavesUnder(_)
LeavesUnder(node) ==
    IF Len(node.children) = 0 THEN <<node.data>>
    ELSE LET RECURSIVE Under(_)
             Under(i) == IF i > Len(node.children) THEN <<>>
                         ELSE LeavesUnder(node.children[i]) \o Under(i + 1)
         IN  Under(1)

TreeLeaves(tree) ==
    IF Len(tree.root.children) = 0 THEN <<>> ELSE LeavesUnder(tree.root)

\* what was built: the sum tree, the view tree or the limit printer
ReportBuilt == IF rp_config[1] = "forview" THEN rp_built[1][2] ELSE rp_built[1]

\* a report was built: to_tree or to_limitprinter returned
ReportIsBuilt ==
    /\ rp_built # None
    /\ rp_config[1] = "forview" => rp_built[1][1] = "Ok"

\* the rows of the report that was built, each with its label, its amount,
\* the dash count the code computed for it and the text written for it
ReportRows ==
    LET b == ReportBuilt
    IN  IF rp_config[1] = "forview" THEN b.rows
        ELSE IF rp_config[1] = "forsum"
        THEN LET v == b.posv \o b.negv \o b.totv
             IN  [k \in 1..Len(v) |->
                     [label      |-> v[k][1],
                      amount     |-> v[k][2],
                      dash_count |-> forsum_dash_count(v[k][1], v[k][2], b.alignment_charlen),
                      text       |-> TreeLeaves(b.tree)[k]]]
        ELSE LET v == b.limits \o b.summary
             IN  [k \in 1..Len(v) |->
                     [label      |-> v[k][1],
                      amount     |-> v[k][2],
                      dash_count |-> limitprinter_dash_count(b, v[k]),
                      text       |-> limitprinter_draw(b, v[k])]]

\* label length + 2 bounding spaces + 2 dashes + charlen_for_alignment
RowWidth(row) ==
    Len(row.label) + 2 + 2 + charlen_for_alignment(I64(row.amount), "release")[2]

\* the number of dashes a text holds in a row from position i on
RECURSIVE DashRun(_, _)
DashRun(str, i) ==
    IF i <= Len(str) /\ str[i] = 45 THEN 1 + DashRun(str, i + 1) ELSE 0

\* a text begins with the label, a space, n dashes and a space
DashAligned(str, lbl, n) ==
    /\ Len(str) >= Len(lbl) + n + 2
    /\ SubSeq(str, 1, Len(lbl)) = lbl
    /\ str[Len(lbl) + 1] = 32
    /\ DashRun(str, Len(lbl) + 2) = n
    /\ str[Len(lbl) + 2 + n] = 32

\* the view tree built from the same Config without a postprocessor
WithoutHook ==
    forview_to_tree([rp_config[2] EXCEPT !.leaf_string_postprocessor = None],
                    rp_build)[2]

Aux_C23_Printer ==
    /\ rp_config[1] = "limitprinter"
    /\ rp_text # None
    /\ Len(rp_built[1].limits) = 2
    /\ limitprinter_dash_count(rp_built[1], rp_built[1].summary[2]) = 2

\* a view tree of a release build whose label wrapped past usize::MAX
Aux_C23_Wrapped ==
    /\ rp_config[1] = "forview"
    /\ rp_built # None
    /\ rp_built[1][1] = "Ok"
    /\ Len(rp_built[1][2].rows) = 2
    /\ rp_built[1][2].rows[2].label = <<48>>

\* a view tree of a debug build that panicked on iid + first_iid
Aux_C23_Panicked ==
    /\ rp_config[1] = "forview"
    /\ rp_built # None
    /\ rp_built[1][1] = "Panic"

-----------------------------------------------------------------------------
(* The command line: Root::run on the three files of a repository.         *)
(* A file is modelled by the value it parses to; reading and writing a     *)
(* file succeed.                                                           *)

\* Charset::with_unicode, a string being its characters
with_unicode(self) ==
    [self EXCEPT !.dash            = 9472,
                 !.tree_sideways_t = <<9500, 9472, 9472, 32>>,
                 !.tree_corner     = <<9492, 9472, 9472, 32>>,
                 !.tree_pipe_gap   = <<9474, 32, 32, 32>>,
                 !.tree_space      = <<32, 32, 32, 32>>,
                 !.chart_axis      = 9474,
                 !.chart_bar_pos   = 9608,
                 !.chart_bar_neg   = 9608]

\* Config::default(), derived
Config_default ==
    [first_index_in_date  |-> 0,
     lim_account_type     |-> None,
     unsigned_is_negative |-> FALSE,
     use_colored_output   |-> FALSE,
     use_unicode_symbols  |-> FALSE,
     templates            |-> <<>>]

\* init::initial_config
initial_config ==
    [Config_default EXCEPT !.first_index_in_date = 1,
                           !.use_colored_output  = TRUE,
                           !.use_unicode_symbols = TRUE]

\* cli::util::charset_from_config
charset_from_config(config) ==
    LET unicode == IF config.use_unicode_symbols
                   THEN with_unicode(Charset_default) ELSE Charset_default
    IN  IF config.use_colored_output THEN with_color(unicode) ELSE unicode

\* usize::wrapping_sub
wrapping_sub(a, b) == IF a >= b THEN a - b ELSE a + (USIZE_MAX - b) + 1

\* Err(anyhow!(msg))
Bail(msg) == <<"Err", msg>>

\* Fs::is_repo: the config file exists
is_repo(fs) == fs.config # None

\* the directory of the repository, displayed
FsDir == <<47, 114>>

\* Init::run: what it returns and the files afterwards
Init_run(self, fs) ==
    LET already_repo == is_repo(fs)
        config == IF self.reset_config \/ fs.config = None
                  THEN initial_config ELSE fs.config[1]
    IN  [res |-> Ok(<<"Str",
                      IF ~already_repo
                      THEN <<82, 101, 112, 111, 115, 105, 116, 111, 114, 121, 32, 105, 110, 105, 116, 105, 97, 108, 105, 122, 101, 100, 32, 105, 110, 32, 39>> \o FsDir \o <<39>>
                      ELSE IF self.reset_config
                      THEN <<82, 101, 112, 111, 115, 105, 116, 111, 114, 121, 32, 99, 111, 110, 102, 105, 103, 117, 114, 97, 116, 105, 111, 110, 32, 114, 101, 115, 101, 116, 32, 116, 111, 32, 100, 101, 102, 97, 117, 108, 116, 115, 46>>
                      ELSE <<82, 101, 112, 111, 115, 105, 116, 111, 114, 121, 32, 114, 101, 105, 110, 105, 116, 105, 97, 108, 105, 122, 101, 100, 32, 105, 110, 32, 39>> \o FsDir \o <<39>>>>),
         fs  |-> [fs EXCEPT !.config = Some(config)]]

\* Log with records written although the category is refused
Log_run_write_first(self, rl, config, fs) ==
    LET r   == [date |-> self.date, category |-> self.category,
                amount |-> self.amount[2], note |-> self.note]
        rl2 == insert(rl, r)
    IN  IF ~self.create /\ ~(\E k \in 1..Len(rl) : rl[k].category = self.category)
        THEN [res |-> Bail("nonexistent category"), fs |-> [fs EXCEPT !.rl = rl2]]
        ELSE [res |-> Ok(<<"TreeForView",
                           [charset   |-> charset_from_config(config),
                            first_iid |-> config.first_index_in_date,
                            leaf_string_postprocessor |-> None,
                            rl |-> from_vec(slice_spanning_interval(rl2, [start |-> self.date, end |-> self.date]))]>>),
              fs  |-> [fs EXCEPT !.rl = rl2]]

\* CentsArg::to_cents
to_cents(self, unsigned_is_negative) ==
    IF self[1] = "Signed" THEN self[2]
    ELSE IF unsigned_is_negative THEN 0 - cents_abs(self[2]) ELSE cents_abs(self[2])

\* Log::run: what it returns and the files afterwards
Log_run(self, rl, config, fs) ==
    IF ~self.create /\ ~(\E k \in 1..Len(rl) : rl[k].category = self.category)
    THEN [res |-> Bail("nonexistent category"), fs |-> fs]
    ELSE LET r   == [date |-> self.date, category |-> self.category,
                     amount |-> to_cents(self.amount, config.unsigned_is_negative),
                     note |-> self.note]
             rl2 == insert(rl, r)
         IN  [res |-> Ok(<<"TreeForView",
                           [charset   |-> charset_from_config(config),
                            first_iid |-> config.first_index_in_date,
                            leaf_string_postprocessor |-> None,
                            rl |-> from_vec(slice_spanning_interval(rl2, [start |-> self.date, end |-> self.date]))]>>),
              fs  |-> [fs EXCEPT !.rl = rl2]]

\* config.templates.get(name)
templates_get(templates, name) ==
    IF \E i \in 1..Len(templates) : templates[i][1] = name
    THEN Some((CHOOSE entry \in {templates[i] : i \in 1..Len(templates)} :
                   entry[1] = name)[2])
    ELSE None

\* the loop of Logt::run over the entries of a template, from entry i on
RECURSIVE logt_insert_from(_, _, _, _)
logt_insert_from(rl, tmpl, i, dt) ==
    IF i >= Len(tmpl) THEN rl
    ELSE logt_insert_from(
             insert(rl, [date |-> dt, category |-> tmpl[i + 1].category,
                         amount |-> tmpl[i + 1].amount, note |-> <<>>]),
             tmpl, i + 1, dt)

\* Logt::run: what it returns and the files afterwards
Logt_run(self, rl, config, fs) ==
    IF self.template = None
    THEN [res |-> Ok(<<"TreeForLogt", [charset   |-> charset_from_config(config),
                                       templates |-> config.templates]>>),
          fs  |-> fs]
    ELSE LET tmpl == templates_get(config.templates, self.template[1])
         IN  IF tmpl = None
             THEN [res |-> Bail("unknown template"), fs |-> fs]
             ELSE LET rl2 == logt_insert_from(rl, tmpl[1], 0, self.date)
                  IN  [res |-> Ok(<<"TreeForView",
                                    [charset   |-> charset_from_config(config),
                                     first_iid |-> config.first_index_in_date,
                                     leaf_string_postprocessor |-> None,
                                     rl |-> from_vec(slice_spanning_interval(rl2, [start |-> self.date, end |-> self.date]))]>>),
                       fs  |-> [fs EXCEPT !.rl = rl2]]

\* Rm with the index taken as the index in the date whatever
\* first_index_in_date is
Rm_run_from_zero(self, rl, config, fs, colorize) ==
    LET iid0 == self.index
    IN  IF get(rl, self.date, iid0) = None
        THEN [res |-> Bail("nonexistent transaction"), fs |-> fs]
        ELSE [res |-> Ok(<<"TreeForView",
                           [charset   |-> charset_from_config(config),
                            first_iid |-> config.first_index_in_date,
                            rl |-> from_vec(slice_spanning_interval(rl, [start |-> self.date, end |-> self.date])),
                            leaf_string_postprocessor |->
                                Some(rm_lspp(self.date, iid0, self.confirm, colorize))]>>),
              fs  |-> IF self.confirm
                      THEN [fs EXCEPT !.rl = remove(rl, self.date, iid0)[1]]
                      ELSE fs]

\* Rm that writes the ledger without the record also when --confirm is not given
Rm_run_always_confirmed(self, rl, config, fs, colorize) ==
    LET iid0 == wrapping_sub(self.index, config.first_index_in_date)
    IN  IF get(rl, self.date, iid0) = None
        THEN [res |-> Bail("nonexistent transaction"), fs |-> fs]
        ELSE [res |-> Ok(<<"TreeForView",
                           [charset   |-> charset_from_config(config),
                            first_iid |-> config.first_index_in_date,
                            rl |-> from_vec(slice_spanning_interval(rl, [start |-> self.date, end |-> self.date])),
                            leaf_string_postprocessor |->
                                Some(rm_lspp(self.date, iid0, self.confirm, colorize))]>>),
              fs  |-> [fs EXCEPT !.rl = remove(rl, self.date, iid0)[1]]]

\* Rm::run: what it returns and the files afterwards; the record was
\* verified to exist, so the expect on rl.remove cannot fail
Rm_run(self, rl, config, fs, colorize) ==
    LET iid0 == wrapping_sub(self.index, config.first_index_in_date)
    IN  IF get(rl, self.date, iid0) = None
        THEN [res |-> Bail("nonexistent transaction"), fs |-> fs]
        ELSE [res |-> Ok(<<"TreeForView",
                           [charset   |-> charset_from_config(config),
                            first_iid |-> config.first_index_in_date,
                            rl |-> from_vec(slice_spanning_interval(rl, [start |-> self.date, end |-> self.date])),
                            leaf_string_postprocessor |->
                                Some(rm_lspp(self.date, iid0, self.confirm, colorize))]>>),
              fs  |-> IF self.confirm
                      THEN [fs EXCEPT !.rl = remove(rl, self.date, iid0)[1]]
                      ELSE fs]

\* lim::update_limits
update_limits(limits, yr, amt, fs) ==
    IF amt # 0
    THEN [res |-> Ok(<<"Str", DigitsOf(yr) \o <<32, 108, 105, 109, 105, 116, 32, 115, 101, 116, 32, 116, 111, 32>>
                              \o to_string(I64(amt), "release")[2]>>),
          fs  |-> [fs EXCEPT !.limits = set(limits, yr, amt)]]
    ELSE IF limits_remove(limits, yr)[2] # None
    THEN [res |-> Ok(<<"Str", DigitsOf(yr) \o <<32, 108, 105, 109, 105, 116, 32, 114, 101, 109, 111, 118, 101, 100, 46>>>>),
          fs  |-> [fs EXCEPT !.limits = limits_remove(limits, yr)[1]]]
    ELSE [res |-> Ok(<<"Str", DigitsOf(yr) \o <<32, 104, 97, 115, 32, 110, 111, 32, 108, 105, 109, 105, 116, 46>>>>),
          fs  |-> fs]

\* Lim::run: what it returns and the files afterwards
Lim_run(self, rl, config, fs) ==
    LET limits == fs.limits
        kind   == IF self.view # None THEN self.view ELSE config.lim_account_type
    IN  IF self.set # None THEN update_limits(limits, self.year, self.set[1], fs)
        ELSE IF kind = None
        THEN [res |-> Bail("no default account type configured"), fs |-> fs]
        ELSE [res |-> Ok(<<"Limitprinter",
                           [charset |-> charset_from_config(config),
                            year    |-> self.year,
                            kind    |-> kind[1],
                            limits  |-> limits,
                            rl      |-> rl]>>),
              fs  |-> fs]

\* Root::run for the commands that are handed the Fs
Root_run(command, fs, colorize) ==
    IF command[1] = "init" THEN Init_run(command[2], fs)
    ELSE IF ~is_repo(fs) THEN [res |-> Bail("not a repository"), fs |-> fs]
    ELSE CASE command[1] = "log"  -> Log_run(command[2], fs.rl, fs.config[1], fs)
           [] command[1] = "logt" -> Logt_run(command[2], fs.rl, fs.config[1], fs)
           [] command[1] = "rm"   -> Rm_run(command[2], fs.rl, fs.config[1], fs, colorize)
           [] command[1] = "lim"  -> Lim_run(command[2], fs.rl, fs.config[1], fs)

-----------------------------------------------------------------------------
(* The command line state machine: command lines run one after another in  *)
(* a directory                                                             *)

CliDates == {20150330, 20150401}
CliCategories == {<<97>>, <<98>>}

CliRecord ==
    [date : CliDates, category : CliCategories, amount : {100}, note : {<<>>}]

\* ledgers the commands have written
CliLists ==
    {from_vec(v) : v \in UNION {[1..n -> CliRecord] : n \in 0..MaxLedger}}

\* a template of two entries
CliTemplates ==
    <<<<(<<116>>), <<[category |-> <<97>>, amount |-> 100],
                     [category |-> <<98>>, amount |-> 0 - 200]>>>>>>

\* config files: as init writes them, and as edited by hand
CliConfigs ==
    {Config_default,
     initial_config,
     [Config_default EXCEPT !.first_index_in_date = USIZE_MAX],
     [initial_config EXCEPT !.lim_account_type = Some("Tfsa"),
                            !.unsigned_is_negative = TRUE,
                            !.templates = CliTemplates]}

CliLimits == {<<>>, <<<<2015, 3000>>>>}

CliIndexes == {0, 1, 2, 3, USIZE_MAX}

\* the three files
Files == [config |-> fs_config, rl |-> fs_rl, limits |-> fs_limits]

CliInit ==
    /\ fs_config \in {None} \cup {Some(config) : config \in CliConfigs}
    /\ fs_rl \in CliLists
    /\ fs_limits \in CliLimits
    /\ cl_cmd = <<"none">>
    /\ cl_res = <<"none">>
    /\ cl_before = None
    /\ IdleButCli

\* a command line was run: what it returned and what it left in the files
Ran(command, out) ==
    /\ cl_cmd' = command
    /\ cl_res' = out.res
    /\ cl_before' = Some(Files)
    /\ fs_config' = out.fs.config
    /\ fs_rl' = out.fs.rl
    /\ fs_limits' = out.fs.limits
    /\ UNCHANGED nonCliVars

\* ledger init [--reset-config]
RunInit ==
    /\ \E reset_config \in BOOLEAN :
           LET command == <<"init", [reset_config |-> reset_config]>>
           IN  Ran(command, Root_run(command, Files, FALSE))

\* ledger log CATEGORY AMOUNT DATE [--create]
RunLog ==
    /\ Len(fs_rl) < MaxLedger
    /\ \E category \in CliCategories, dt \in CliDates, create \in BOOLEAN :
           LET command == <<"log", [category |-> category,
                                    amount   |-> <<"Unsigned", 100>>,
                                    date     |-> dt,
                                    note     |-> <<>>,
                                    create   |-> create]>>
           IN  Ran(command, Root_run(command, Files, FALSE))

\* ledger logt [TEMPLATE] DATE
RunLogt ==
    /\ Len(fs_rl) + 2 <= MaxLedger
    /\ \E template \in {None, Some(<<116>>), Some(<<117>>)}, dt \in CliDates :
           LET command == <<"logt", [template |-> template, date |-> dt]>>
           IN  Ran(command, Root_run(command, Files, FALSE))

\* ledger rm DATE INDEX [--confirm], where the colored crate emits escape
\* codes or not
RunRm ==
    /\ \E dt \in CliDates, index \in CliIndexes, confirm \in BOOLEAN,
          colorize \in BOOLEAN :
           LET command == <<"rm", [date |-> dt, index |-> index, confirm |-> confirm]>>
           IN  Ran(command, Root_run(command, Files, colorize))

\* ledger lim YEAR [--set AMOUNT | --view ACCOUNT_TYPE]
RunLim ==
    /\ \E yr \in {2015, 2016}, opts \in {<<None, None>>, <<Some(0), None>>,
                                         <<Some(3000), None>>, <<None, Some("Rrsp")>>} :
           LET command == <<"lim", [year |-> yr, set |-> opts[1], view |-> opts[2]]>>
           IN  Ran(command, Root_run(command, Files, FALSE))

CliNext ==
    \/ RunInit
    \/ RunLog
    \/ RunLogt
    \/ RunRm
    \/ RunLim

SpecCli == CliInit /\ [][CliNext]_vars

\* the files as they were before the last command line ran
Before == cl_before[1]

\* the positions in a ledger of the records of a date that the view shows
\* under an index: the usize sum of the index in the date and first_index_in_date
Addressed(rl, dt, index, first_index_in_date) ==
    {p \in 1..Len(rl) :
        /\ date(rl[p]) = dt
        /\ wrapping_add(IidAt(rl, p), first_index_in_date) = index}

\* a ledger without the record at position p
Without(rl, p) == SubSeq(rl, 1, p - 1) \o SubSeq(rl, p + 1, Len(rl))

\* the marks rm puts behind a row, plain and in color
WouldBeRemoved == <<32, 60, 45, 32, 91, 87, 79, 85, 76, 68, 32, 66, 69, 32, 82, 69, 77, 79, 86, 69, 68, 93>>
Removed == <<32, 60, 45, 32, 91, 82, 69, 77, 79, 86, 69, 68, 93>>
Marks(str, code) == {str, colorized(str, code, TRUE)}

\* the last command line was an rm that returned Ok
RmSucceeded == cl_cmd[1] = "rm" /\ cl_res[1] = "Ok"

Aux_C26_DryRun ==
    /\ RmSucceeded
    /\ ~cl_cmd[2].confirm
    /\ cl_cmd[2].index = 2
    /\ Before.config[1].first_index_in_date = 1
    /\ Len(Before.rl) = 2
    /\ Before.rl[1].date = Before.rl[2].date
    /\ fs_rl = Before.rl

\* C27: whenever a command returns an error - any command other than init
\* run outside a repository, rm of a nonexistent transaction, log of a
\* category not yet present in the ledger without --create, logt with an
\* unknown template - the persisted config, ledger and limits are exactly as
\* they were before the command; and each of these command lines does
\* return its error.
C27_ErrorsLeaveFiles ==
    cl_before # None =>
        LET self == cl_cmd[2]
        IN  /\ cl_res[1] = "Err" => Files = Before
            /\ (cl_cmd[1] # "init" /\ Before.config = None) =>
                   cl_res = Bail("not a repository")
            /\ (/\ cl_cmd[1] = "rm"
                /\ Before.config # None
                /\ Addressed(Before.rl, self.date, self.index,
                             Before.config[1].first_index_in_date) = {}) =>
                   cl_res = Bail("nonexistent transaction")
            /\ (/\ cl_cmd[1] = "log"
                /\ Before.config # None
                /\ ~self.create
                /\ \A k \in 1..Len(Before.rl) : Before.rl[k].category # self.category) =>
                   cl_res = Bail("nonexistent category")
            /\ (/\ cl_cmd[1] = "logt"
                /\ Before.config # None
                /\ self.template # None
                /\ \A i \in 1..Len(Before.config[1].templates) :
                       Before.config[1].templates[i][1] # self.template[1]) =>
                   cl_res = Bail("unknown template")

\* rm --confirm of an index no record of the date has, in a repository whose
\* ledger holds two records: an error, and the two records are still there
C27_Witness ==
    /\ cl_cmd[1] = "rm"
    /\ cl_cmd[2].confirm
    /\ cl_res = Bail("nonexistent transaction")
    /\ Len(fs_rl) = 2
    /\ fs_config # None
    /\ fs_rl[1].date = cl_cmd[2].date

\* log without --create of a category the ledger does not hold
Aux_C27_Log ==
    /\ cl_cmd[1] = "log"
    /\ cl_res = Bail("nonexistent category")
    /\ Len(fs_rl) = 1

\* logt of a template the config does not hold
Aux_C27_Logt ==
    /\ cl_cmd[1] = "logt"
    /\ cl_res = Bail("unknown template")

\* a command other than init outside a repository, beside a ledger file
Aux_C27_NotARepo ==
    /\ cl_cmd[1] = "lim"
    /\ cl_res = Bail("not a repository")
    /\ Len(fs_rl) = 1

\* what C28 states of an rm command line run in a repository
IndexRange ==
    LET self  == cl_cmd[2]
        rl0   == Before.rl
        first == Before.config[1].first_index_in_date
    IN  /\ cl_res[1] = "Ok" <=>
               (first <= self.index /\ self.index - first < CountOn(rl0, self.date))
        /\ cl_res[1] = "Ok" =>
               /\ cl_res[2][2].leaf_string_postprocessor[1].iid0 = self.index - first
               /\ self.confirm =>
                      \E p \in 1..Len(rl0) :
                          /\ date(rl0[p]) = self.date
                          /\ IidAt(rl0, p) = self.index - first
                          /\ fs_rl = Without(rl0, p)
        /\ cl_res[1] # "Ok" =>
               /\ cl_res = Bail("nonexistent transaction")
               /\ fs_rl = rl0

\* C28: the rm command addresses the record whose zero-based index-in-date
\* is INDEX - first_index_in_date: it succeeds exactly when
\* first_index_in_date <= INDEX < first_index_in_date + (number of records on
\* DATE), and for every other INDEX, including any INDEX below
\* first_index_in_date, it fails with "nonexistent transaction" without
\* panicking and without removing any record.
C28_IndexRange ==
    (cl_cmd[1] = "rm" /\ Before.config # None) => IndexRange

\* the same, where first_index_in_date + the index in the date of every
\* record of DATE is a usize
Aux_C28_WithoutWrap ==
    (/\ cl_cmd[1] = "rm"
     /\ Before.config # None
     /\ \/ CountOn(Before.rl, cl_cmd[2].date) = 0
        \/ Before.config[1].first_index_in_date
             <= USIZE_MAX - (CountOn(Before.rl, cl_cmd[2].date) - 1)) => IndexRange

\* rm DATE 0 --confirm with first_index_in_date = usize::MAX and two records
\* on DATE: the second record was removed
Aux_C28_Wrapped ==
    /\ RmSucceeded
    /\ cl_cmd[2].confirm
    /\ cl_cmd[2].index = 0
    /\ Before.config[1].first_index_in_date = USIZE_MAX
    /\ Len(Before.rl) = 2
    /\ fs_rl = <<Before.rl[1]>>

\* rm of an index below first_index_in_date failed
Aux_C28_Below ==
    /\ cl_cmd[1] = "rm"
    /\ cl_cmd[2].index = 0
    /\ Before.config # None
    /\ Before.config[1].first_index_in_date = 1
    /\ Len(Before.rl) = 2
    /\ cl_res = Bail("nonexistent transaction")

-----------------------------------------------------------------------------
(* The widths of a bar chart *)

\* position k of a string lies within an escape code of the colored crate,
\* ESC [ 3 x m or ESC [ 0 m, which takes no column of the terminal
InEscape(str, k) ==
    \E e \in (IF k > 4 THEN k - 4 ELSE 1)..k :
        /\ str[e] = 27
        /\ \A j \in e..(k - 1) : str[j] # 109

\* the widths of the lines of a string that ends with a newline
LineWidths(str) ==
    LET ends == {k \in 1..Len(str) : str[k] = 10}
        from(k) == LET before == {n \in ends : n < k}
                   IN  IF before = {} THEN 1
                       ELSE 1 + CHOOSE n \in before : \A n2 \in before : n2 <= n
    IN  {Cardinality({j \in from(k)..(k - 1) : ~InEscape(str, j)}) : k \in ends}

\* a bar chart of a Recordlist with records was rendered
ChartRendered ==
    /\ ou_text # None
    /\ ou_output[1] = "Barchart"
    /\ Len(ou_output[2].rl) > 0

\* max(term_width, 60)
ChartWidth ==
    IF ou_output[2].term_width >= 60 THEN ou_output[2].term_width ELSE 60

\* the sums the chart draws: one for each subinterval and side with records
ChartValues ==
    LET chart == to_barchart(ou_output[2])
    IN  {chart.pos.m[k] : k \in DOMAIN chart.pos.m}
        \cup {chart.neg.m[k] : k \in DOMAIN chart.neg.m}

\* the largest magnitude among integers
MaxMagnitude(S) ==
    LET mags == {IF v < 0 THEN 0 - v ELSE v : v \in S}
    IN  IF mags = {} THEN 0 ELSE CHOOSE v \in mags : \A w \in mags : w <= v

\* C29: for every Recordlist, bounds, unit and term_width, the bar chart's
\* max_bar_length = max(term_width, 60) - label width - 3 - charlen(-max
\* magnitude) never underflows and is at least 20, every bar length is at
\* most max_bar_length, and no rendered line (label, divider, bar, space,
\* value) is wider than max(term_width, 60) characters; the bound of 20 is
\* that of the widest label and the widest Cents, -i64::MAX.
C29_BarWidths ==
    /\ MIN_TERM_WIDTH - 10 - 3 - charlen([I64_MAX EXCEPT !.neg = TRUE], "release")[2] >= 20
    /\ ChartRendered =>
           LET chart == to_barchart(ou_output[2])
               width == CASE ou_output[2].unit = "Year"  -> 4
                          [] ou_output[2].unit = "Month" -> 8
                          [] ou_output[2].unit = "Day"   -> 10
           IN  /\ chart.max_barlen
                    = ChartWidth - width - 3
                      - charlen(I64(0 - MaxMagnitude(ChartValues)), "release")[2]
               /\ \A interval \in {iter_collect(chart.bounds, chart.unit)[k] :
                                      k \in 1..Len(iter_collect(chart.bounds, chart.unit))} :
                      Len(label(chart, interval.start)) = width
               /\ chart.max_barlen >= 20
               /\ \A v \in ChartValues \cup {0} : barlen(chart, v) <= chart.max_barlen
               /\ \A n \in LineWidths(ou_text[1]) : n <= ChartWidth

\* a chart by day for a terminal narrower than 60 columns, in color, whose
\* largest magnitude is that of a negative sum: its bar has max_bar_length
\* = 60 - 10 - 3 - 6 = 41 characters and its line is 60 characters wide
C29_Witness ==
    /\ ChartRendered
    /\ ou_output[2].term_width = 0
    /\ ou_output[2].unit = "Day"
    /\ ou_output[2].charset.color
    /\ ou_colorize
    /\ to_barchart(ou_output[2]).max_barlen = 41
    /\ MaxMagnitude(ChartValues) = 500
    /\ 60 \in LineWidths(ou_text[1])

\* a chart whose largest magnitude is that of a positive sum leaves two
\* columns unused: no line is wider than max(term_width, 60) - 2
Aux_C29_TwoColumnsUnused ==
    /\ ChartRendered
    /\ ou_output[2].term_width = 80
    /\ MaxMagnitude(ChartValues) = 1500
    /\ \A n \in LineWidths(ou_text[1]) : n <= 78
    /\ 78 \in LineWidths(ou_text[1])

-----------------------------------------------------------------------------
(* The addresses of iter_with_iid and of get *)

\* the indexes in a date that get is asked for: those of the model's calls
\* and one past the longest list
AskedIids == Iids \cup {MaxLen}

\* C30: in every reachable Recordlist state, the addresses produced by
\* iter_with_iid and the addresses accepted by get agree: for each pair
\* (iid, r) yielded by iter_with_iid, get(r.date, iid) returns that same
\* record, and get(d, i) returns a record only for a pair (d, i) that
\* iter_with_iid yields.
C30_AddressesAgree ==
    LET pairs == iter_with_iid(list)
    IN  /\ Len(pairs) = Len(list)
        /\ \A k \in 1..Len(pairs) :
               /\ pairs[k][2] = list[k]
               /\ get(list, date(pairs[k][2]), pairs[k][1]) = Some(pairs[k][2])
               /\ index_of(list, date(pairs[k][2]), pairs[k][1]) = Some(k - 1)
        /\ \A d \in RecordDates, i \in AskedIids :
               get(list, d, i) # None =>
                   \E k \in 1..Len(pairs) :
                       /\ pairs[k][1] = i
                       /\ date(pairs[k][2]) = d
                       /\ get(list, d, i) = Some(pairs[k][2])

\* after a remove that took a record out, a list of two records of one date
\* and one of a later date, addressed 0, 1 and 0
C30_Witness ==
    /\ call[1] = "remove"
    /\ ret # None
    /\ Len(list) = 3
    /\ date(list[1]) = date(list[2])
    /\ date(list[2]) < date(list[3])
    /\ get(list, date(list[2]), 1) = Some(list[2])
    /\ get(list, date(list[3]), 0) = Some(list[3])
    /\ get(list, date(list[3]), 1) = None

====
